---- MODULE Spec2Model ----
(***************************************************************************)
(* Model of the backtest runner (src/src/backtesting/BacktestingEngine.ts) *)
(* and of the performance analyzer                                         *)
(* (src/src/analysis/PerformanceAnalyzer.ts).                              *)
(*                                                                         *)
(* Numbers.  The code computes with IEEE doubles.  The model computes with *)
(* exact fractions <<n, d>> (d > 0, lowest terms) extended by the three    *)
(* special doubles the divisions of the code produce: NaN = <<0, 0>>,      *)
(* +Infinity = <<1, 0>> and -Infinity = <<-1, 0>>.  Rounding and the sign  *)
(* of zero are not modelled; Math.sqrt is exact on squares of fractions    *)
(* and rounded up to hundredths elsewhere.                                 *)
(***************************************************************************)
EXTENDS Integers, Sequences, FiniteSets, TLC

VARIABLES
    historicalData,      \* BacktestingEngine.historicalData : asset -> bars
    initialPortfolio,    \* BacktestingEngine.initialPortfolio
    currentPortfolio,    \* BacktestingEngine.currentPortfolio (the ledger)
    trades,              \* BacktestingEngine.trades
    currentTimeIndex,    \* BacktestingEngine.currentTimeIndex
    performanceAnalyzer, \* BacktestingEngine.performanceAnalyzer (its fields)
    marketData,          \* MarketAnalyzer.marketData : asset -> visible bars
    now,                 \* the wall clock read by Date.now()
    pc,                  \* position of runBacktest: "idle", "running", "failed"
    window,              \* arguments of the running call: [startDate, endDate]
    timeRange,           \* local timeRange of runBacktest
    i,                   \* loop counter of runBacktest (iterations finished)
    analysisLog,         \* per finished iteration: who failed, who got an insight
    completed,           \* results of the finished runBacktest calls
    report,              \* value returned by the last finished call
    faulty,              \* assets for which the injected analyzer can raise
    runsLeft,            \* runBacktest calls still to be made
    candidates,          \* executeTrades exercised alone: its argument
    admitted,            \* executeTrades exercised alone: the risk gate's answers
    optimizationMethod,  \* StrategyOptimizer.optimizationMethod
    parameters,          \* StrategyOptimizer.parameters : name -> {min, max, step}
    opc,                 \* position of optimizeStrategy: "idle", the search
                         \* it runs, "done" or "error"
    iteration,           \* loop counter of gridSearch and bayesianOptimization
    population,          \* local population of geneticOptimization
    results,             \* results of the generation under evaluation
    generation,          \* loop counter of geneticOptimization
    bestResult,          \* local bestResult of the running search
    candidate,           \* argument of the evaluateParameters call under way
    evaluations,         \* result of every finished evaluateParameters call
    bestAt,              \* index in evaluations of the call that gave bestResult
    returned,            \* value returned by optimizeStrategy
    optPortfolio,        \* PortfolioOptimizer.portfolio
    marketInsights,      \* PortfolioOptimizer.marketInsights : asset -> insight
    targetAllocation,    \* PortfolioOptimizer.targetAllocation : asset -> weight
    rebalanceThreshold,  \* PortfolioOptimizer.rebalanceThreshold
    rebalanceTrades,     \* value returned by the last optimizePortfolio call
    webhooks,            \* WebhookSystem.webhooks : id -> config
    eventQueue,          \* WebhookSystem.eventQueue
    isProcessing,        \* WebhookSystem.isProcessing
    calls,               \* the processQueue calls: position and locals of each
    down,                \* ids of the webhooks whose endpoint answers with an error
    attempts,            \* fetch calls made for the payload a call is retrying
    enumRange,           \* generateParameterCombinations: the {min, max, step}
                         \* whose values it lists
    loopValue,           \* generateParameterCombinations: the loop variable value
    valuesLength,        \* generateParameterCombinations: values.length, counted
                         \* modulo MaxPushed + 1
    epc                  \* position of that loop: "idle", "loop", "returned"

engineVars == <<historicalData, initialPortfolio, currentPortfolio, trades,
                currentTimeIndex, performanceAnalyzer, marketData, now, pc,
                window, timeRange, i, analysisLog, completed, report, faulty,
                runsLeft, candidates, admitted>>

optVars == <<optimizationMethod, parameters, opc, iteration, population, results,
             generation, bestResult, candidate, evaluations, bestAt, returned>>

rebVars == <<optPortfolio, marketInsights, targetAllocation, rebalanceThreshold,
             rebalanceTrades>>

hookVars == <<webhooks, eventQueue, isProcessing, calls, down, attempts>>

enumVars == <<enumRange, loopValue, valuesLength, epc>>

\* the rebalancer, the webhook system and the value loop taken alone, which
\* the engine and the strategy optimizer never touch
outerVars == <<rebVars, hookVars, enumVars>>

vars == <<engineVars, optVars, outerVars>>

----------------------------------------------------------------------------
(* Bounds of the model.                                                    *)

MaxT == 3        \* bar timestamps are 1..MaxT
MaxRuns == 2     \* runBacktest calls per behaviour
MaxHist == 3     \* updatePortfolio calls on a directly driven analyzer
MaxValue == 2    \* totalValue of a directly supplied snapshot is 0..MaxValue
MaxCands == 2    \* candidate trades handed to executeTrades
TicksPerDay == 1 \* clock ticks in one calendar day
MaxTrades == 3   \* addTrade calls on a directly driven analyzer
MaxParam == 2    \* the max of a parameter's range is 1..MaxParam
populationSize == 2  \* geneticOptimization: individuals (50 in the code)
generations == 2     \* geneticOptimization: generations (20 in the code)
eliteSize == 1       \* geneticOptimization: elite individuals (5 in the code)
numIterations == 2   \* bayesianOptimization: iterations (50 in the code)

AssetNames == {"A", "B"}
AssetOrder == <<"A", "B">>   \* insertion order of the maps and objects

----------------------------------------------------------------------------
(* Numbers                                                                 *)

NaN == <<0, 0>>
Inf == <<1, 0>>
NegInf == <<-1, 0>>

Abs(x) == IF x < 0 THEN -x ELSE x
Sign(x) == IF x > 0 THEN 1 ELSE IF x < 0 THEN -1 ELSE 0

RECURSIVE Gcd(_, _)
Gcd(a, b) == IF b = 0 THEN a ELSE Gcd(b, a % b)

Norm(n, d) ==
    IF d = 0 THEN <<Sign(n), 0>>
    ELSE IF n = 0 THEN <<0, 1>>
    ELSE LET g == Gcd(Abs(n), Abs(d))
             s == Sign(d)
         IN <<(s * n) \div g, (s * d) \div g>>

Num(k) == <<k, 1>>
Zero == Num(0)
One == Num(1)

IsNaN(a) == a = NaN
IsFinite(a) == a[2] # 0

Neg(a) == <<-a[1], a[2]>>

Add(a, b) ==
    IF IsNaN(a) \/ IsNaN(b) THEN NaN
    ELSE IF ~IsFinite(a) /\ ~IsFinite(b) THEN (IF a = b THEN a ELSE NaN)
    ELSE IF ~IsFinite(a) THEN a
    ELSE IF ~IsFinite(b) THEN b
    ELSE Norm(a[1] * b[2] + b[1] * a[2], a[2] * b[2])

Sub(a, b) == Add(a, Neg(b))

Mul(a, b) == Norm(a[1] * b[1], a[2] * b[2])

Recip(b) ==
    IF IsNaN(b) THEN NaN
    ELSE IF ~IsFinite(b) THEN Zero
    ELSE IF b[1] = 0 THEN Inf
    ELSE Norm(b[2], b[1])

Div(a, b) ==
    IF IsFinite(a) /\ a[1] = 0 /\ IsFinite(b) /\ b[1] = 0 THEN NaN
    ELSE Mul(a, Recip(b))

\* a < b as the code's comparison operators decide it (false on NaN)
Lt(a, b) ==
    IF IsNaN(a) \/ IsNaN(b) \/ a = b THEN FALSE
    ELSE IF a = NegInf \/ b = Inf THEN TRUE
    ELSE IF a = Inf \/ b = NegInf THEN FALSE
    ELSE a[1] * b[2] < b[1] * a[2]

Gt(a, b) == Lt(b, a)
Le(a, b) == Lt(a, b) \/ (~IsNaN(a) /\ a = b)

\* Math.max(a, b)
MathMax(a, b) ==
    IF IsNaN(a) \/ IsNaN(b) THEN NaN
    ELSE IF Lt(a, b) THEN b ELSE a

RECURSIVE SqrtSearch(_, _, _)
\* the least k in lo..hi with k * k >= n
SqrtSearch(n, lo, hi) ==
    IF lo >= hi THEN lo
    ELSE LET mid == (lo + hi) \div 2
         IN IF mid * mid >= n THEN SqrtSearch(n, lo, mid)
            ELSE SqrtSearch(n, mid + 1, hi)

\* Math.sqrt(a)
Sqrt(a) ==
    IF IsNaN(a) \/ a[1] < 0 THEN NaN
    ELSE IF ~IsFinite(a) THEN Inf
    ELSE LET n == a[1] * a[2] * 10000
         IN Norm(SqrtSearch(n, 0, n), a[2] * 100)

RECURSIVE SumSeq(_)
\* values.reduce((acc, curr) => acc + curr, 0)
SumSeq(values) ==
    IF values = <<>> THEN Zero
    ELSE Add(SumSeq(SubSeq(values, 1, Len(values) - 1)), values[Len(values)])

----------------------------------------------------------------------------
(* Inputs: asset series, snapshots                                         *)

RECURSIVE SortedSeq(_)
\* the members of a finite set of integers in increasing order
SortedSeq(S) ==
    IF S = {} THEN <<>>
    ELSE LET m == CHOOSE x \in S : \A y \in S : x <= y
         IN <<m>> \o SortedSeq(S \ {m})

\* an asset series: bars with strictly increasing timestamps; its closes
\* are all 1 ("flat") or follow the timestamp ("ramp")
ClosePatterns == {"flat", "ramp"}

SeriesOf(T, pattern) ==
    LET ts == SortedSeq(T)
    IN [k \in 1..Len(ts) |->
          [timestamp |-> ts[k], close |-> IF pattern = "flat" THEN 1 ELSE ts[k]]]

FlatSeries == { SeriesOf(T, "flat") : T \in SUBSET (1..MaxT) }
AllSeries == { SeriesOf(T, p) : T \in SUBSET (1..MaxT), p \in ClosePatterns }

\* historicalData: no asset, asset A alone, or A with a flat-priced B
AllData ==
    {<<>>} \cup { [a \in {"A"} |-> sa] : sa \in AllSeries }
           \cup { [a \in AssetNames |-> IF a = "A" THEN sa ELSE sb] :
                    sa \in AllSeries, sb \in FlatSeries }

AllAllocations == { [a \in S |-> Num(1)] : S \in SUBSET AssetNames }

\* a PortfolioAnalysis (src/src/types/index.ts:82-88)
Snapshot(t, v, alloc) ==
    [timestamp |-> t, totalValue |-> v, assetAllocation |-> alloc,
     riskScore |-> 0, recommendations |-> <<>>]

\* keys of a Map or object in insertion order
Keys(S) == SelectSeq(AssetOrder, LAMBDA a : a \in S)

----------------------------------------------------------------------------
(* BacktestingEngine: helpers                                              *)

RECURSIVE AddAll(_, _, _, _)
\* lines 78-84: timestamps.add(...) for the bars of one series, in order
AddAll(seen, series, startDate, endDate) ==
    IF series = <<>> THEN seen
    ELSE LET t == Head(series).timestamp
             next == IF t >= startDate /\ t <= endDate
                        /\ ~(\E k \in 1..Len(seen) : seen[k] = t)
                     THEN Append(seen, t) ELSE seen
         IN AddAll(next, Tail(series), startDate, endDate)

RECURSIVE CollectTimestamps(_, _, _, _, _)
CollectTimestamps(seen, keys, data, startDate, endDate) ==
    IF keys = <<>> THEN seen
    ELSE CollectTimestamps(AddAll(seen, data[Head(keys)], startDate, endDate),
                           Tail(keys), data, startDate, endDate)

RECURSIVE InsertNum(_, _)
InsertNum(sorted, x) ==
    IF sorted = <<>> THEN <<x>>
    ELSE IF x - Head(sorted) < 0 THEN <<x>> \o sorted
    ELSE <<Head(sorted)>> \o InsertNum(Tail(sorted), x)

RECURSIVE SortNum(_)
\* Array.prototype.sort((a, b) => a - b)
SortNum(s) == IF s = <<>> THEN <<>> ELSE InsertNum(SortNum(Tail(s)), Head(s))

\* the timestamps in insertion order, the sort left out
getTimeRangeUnsorted(data, startDate, endDate) ==
    IF DOMAIN data = {} THEN <<>>
    ELSE CollectTimestamps(<<>>, Keys(DOMAIN data), data, startDate, endDate)

getTimeRange(data, startDate, endDate) ==
    IF DOMAIN data = {} THEN <<>>
    ELSE SortNum(CollectTimestamps(<<>>, Keys(DOMAIN data), data, startDate, endDate))

\* the bar of the step itself left out
getDataUpToTimeStrict(series, time) ==
    SelectSeq(series, LAMBDA d : d.timestamp < time)

getDataUpToTime(series, time) ==
    SelectSeq(series, LAMBDA d : d.timestamp <= time)

\* Array.prototype.find: the first match, or "undefined"
Undefined == [timestamp |-> -1, close |-> -1]

Find(series, t) ==
    IF \E k \in 1..Len(series) : series[k].timestamp = t
    THEN series[CHOOSE k \in 1..Len(series) :
                  /\ series[k].timestamp = t
                  /\ \A j \in 1..(k - 1) : series[j].timestamp # t]
    ELSE Undefined

\* getCurrentData reads the clock: clk is the value Date.now() returns
getCurrentData(data, idx, asset, clk) ==
    IF asset \notin DOMAIN data THEN Undefined
    ELSE LET tr == getTimeRange(data, 0, clk)
         IN IF idx + 1 \in 1..Len(tr) THEN Find(data[asset], tr[idx + 1])
            ELSE Undefined

----------------------------------------------------------------------------
(* PerformanceAnalyzer                                                     *)

\* constructor: clk is the value Date.now() returns
NewAnalyzer(initial, clk) ==
    [trades |-> <<>>,
     portfolioHistory |-> <<initial>>,
     startTime |-> clk,
     initialPortfolioValue |-> initial.totalValue]

addTrade(pa, trade) == [pa EXCEPT !.trades = Append(@, trade)]

PAupdatePortfolio(pa, portfolio) ==
    [pa EXCEPT !.portfolioHistory = Append(@, portfolio)]

\* the first snapshot read in place of the last
calculateTotalReturnOfFirst(pa) ==
    LET currentValue == pa.portfolioHistory[1].totalValue
    IN Div(Sub(currentValue, pa.initialPortfolioValue), pa.initialPortfolioValue)

calculateTotalReturn(pa) ==
    LET currentValue == pa.portfolioHistory[Len(pa.portfolioHistory)].totalValue
    IN Div(Sub(currentValue, pa.initialPortfolioValue), pa.initialPortfolioValue)

RECURSIVE DrawdownLoop(_, _, _)
\* the for loop of calculateMaxDrawdown over the rest of the history
DrawdownLoop(rest, peak, maxDrawdown) ==
    IF rest = <<>> THEN maxDrawdown
    ELSE LET v == Head(rest).totalValue
             newPeak == IF Gt(v, peak) THEN v ELSE peak
             drawdown == Div(Sub(newPeak, v), newPeak)
         IN DrawdownLoop(Tail(rest), newPeak, MathMax(maxDrawdown, drawdown))

RECURSIVE LastDrawdownLoop(_, _, _)
LastDrawdownLoop(rest, peak, maxDrawdown) ==
    IF rest = <<>> THEN maxDrawdown
    ELSE LET v == Head(rest).totalValue
             newPeak == IF Gt(v, peak) THEN v ELSE peak
         IN LastDrawdownLoop(Tail(rest), newPeak, Div(Sub(newPeak, v), newPeak))

\* the drawdown of the latest snapshot, the running maximum left out
calculateLastDrawdown(pa) ==
    LastDrawdownLoop(pa.portfolioHistory, pa.portfolioHistory[1].totalValue, Zero)

calculateMaxDrawdown(pa) ==
    DrawdownLoop(pa.portfolioHistory, pa.portfolioHistory[1].totalValue, Zero)

\* new Date(t).setHours(0, 0, 0, 0): the start of the calendar day of t
DayOf(t) == t - (t % TicksPerDay)

RECURSIVE DailyLoop(_, _, _, _)
\* the for loop of aggregateDailyPortfolioValues and its final push
DailyLoop(rest, currentDay, lastValue, dailyValues) ==
    IF rest = <<>> THEN Append(dailyValues, lastValue)
    ELSE LET portfolio == Head(rest)
             portfolioDay == DayOf(portfolio.timestamp)
         IN IF portfolioDay > currentDay
            THEN DailyLoop(Tail(rest), portfolioDay, portfolio.totalValue,
                           Append(dailyValues, lastValue))
            ELSE DailyLoop(Tail(rest), currentDay, portfolio.totalValue,
                           dailyValues)

aggregateDailyPortfolioValues(pa) ==
    DailyLoop(pa.portfolioHistory, DayOf(pa.startTime),
              pa.initialPortfolioValue, <<>>)

calculateDailyReturns(pa) ==
    LET dailyValues == aggregateDailyPortfolioValues(pa)
    IN [k \in 1..(Len(dailyValues) - 1) |->
          Div(Sub(dailyValues[k + 1], dailyValues[k]), dailyValues[k])]

calculateStandardDeviation(values) ==
    LET n == Num(Len(values))
        mean == Div(SumSeq(values), n)
        squareDiffs == [k \in 1..Len(values) |->
                          Mul(Sub(values[k], mean), Sub(values[k], mean))]
        avgSquareDiff == Div(SumSeq(squareDiffs), n)
    IN Sqrt(avgSquareDiff)

\* 0.02 / 365
riskFreeRate == Div(Norm(2, 100), Num(365))

calculateSharpeRatio(pa) ==
    LET returns == calculateDailyReturns(pa)
        averageReturn == Div(SumSeq(returns), Num(Len(returns)))
        standardDeviation == calculateStandardDeviation(returns)
    IN IF Len(returns) = 0 THEN Zero
       ELSE IF standardDeviation = Zero THEN Zero
       ELSE Div(Sub(averageReturn, riskFreeRate), standardDeviation)

calculateTradeProfit(entry, exit) ==
    IF entry.type = "buy" /\ exit.type = "sell"
    THEN Num((exit.price - entry.price) * entry.amount)
    ELSE IF entry.type = "sell" /\ exit.type = "buy"
    THEN Num((entry.price - exit.price) * entry.amount)
    ELSE Zero

RECURSIVE WinLoop(_, _)
\* the for loop of calculateWinRate from index k on: the winning trades
WinLoop(trs, k) ==
    IF k > Len(trs) THEN 0
    ELSE (IF trs[k].asset = trs[k - 1].asset
             /\ Gt(calculateTradeProfit(trs[k - 1], trs[k]), Zero)
          THEN 1 ELSE 0) + WinLoop(trs, k + 1)

calculateWinRate(pa) ==
    IF Len(pa.trades) = 0 THEN Zero
    ELSE Div(Num(WinLoop(pa.trades, 2)), Num(Len(pa.trades)))

RECURSIVE InsertFrac(_, _)
InsertFrac(sorted, x) ==
    IF sorted = <<>> THEN <<x>>
    ELSE IF Lt(Sub(x, Head(sorted)), Zero) THEN <<x>> \o sorted
    ELSE <<Head(sorted)>> \o InsertFrac(Tail(sorted), x)

RECURSIVE SortFrac(_)
\* [...returns].sort((a, b) => a - b)
SortFrac(s) == IF s = <<>> THEN <<>> ELSE InsertFrac(SortFrac(Tail(s)), Head(s))

\* confidenceLevel = 0.95; an index past the end reads undefined, and
\* -undefined is NaN
calculateValueAtRisk(pa) ==
    LET returns == calculateDailyReturns(pa)
        sortedReturns == SortFrac(returns)
        index == (Len(returns) * 5) \div 100
    IN IF index + 1 \in 1..Len(sortedReturns) THEN Neg(sortedReturns[index + 1])
       ELSE NaN

calculateExpectedShortfall(pa) ==
    LET returns == calculateDailyReturns(pa)
        varValue == calculateValueAtRisk(pa)
        tailReturns == SelectSeq(returns, LAMBDA r : Lt(r, Neg(varValue)))
    IN Div(Neg(SumSeq(tailReturns)), Num(Len(tailReturns)))

calculatePortfolioVolatility(pa) ==
    calculateStandardDeviation(calculateDailyReturns(pa))

getPerformanceMetrics(pa) ==
    [totalReturn |-> calculateTotalReturn(pa),
     winRate |-> calculateWinRate(pa),
     sharpeRatio |-> calculateSharpeRatio(pa),
     maxDrawdown |-> calculateMaxDrawdown(pa),
     trades |-> pa.trades]

\* the numbers of getDetailedAnalysis that come from the daily returns
getDetailedAnalysis(pa) ==
    [performance |-> getPerformanceMetrics(pa),
     portfolioVolatility |-> calculatePortfolioVolatility(pa),
     valueAtRisk |-> calculateValueAtRisk(pa),
     expectedShortfall |-> calculateExpectedShortfall(pa)]

----------------------------------------------------------------------------
(* BacktestingEngine: one iteration of runBacktest                         *)

\* MarketAnalyzer.updateMarketData for every asset (lines 41-44)
UpdateMarketData(md, data, currentTime) ==
    [a \in DOMAIN md \cup DOMAIN data |->
        IF a \in DOMAIN data THEN getDataUpToTime(data[a], currentTime) ELSE md[a]]

\* MarketAnalyzer.analyzeMarket: throws when it holds no data for the asset
\* or when the analysis itself raises (failing: the assets it raises for)
analyzeMarketThrows(md, asset, failing) ==
    asset \notin DOMAIN md \/ asset \in failing

\* analyzeMarkets without its try/catch: the first failure leaves the loop
analyzeMarketsNoCatch(data, md, failing) ==
    [threw |-> \E x \in DOMAIN data : analyzeMarketThrows(md, x, failing),
     insights |-> [a \in {x \in DOMAIN data : ~analyzeMarketThrows(md, x, failing)}
                     |-> "insight"]]

\* analyzeMarkets: the try/catch drops the assets whose analysis threw
analyzeMarkets(data, md, failing) ==
    [threw |-> FALSE,
     insights |-> [a \in {x \in DOMAIN data : ~analyzeMarketThrows(md, x, failing)}
                     |-> "insight"]]

calculateTradeAmount(asset, insight, price) == 0

\* rnd is the value Math.random() returns
generateTradeId(clk, rnd) == <<"backtest", clk, rnd>>

RECURSIVE GenerateLoop(_, _, _, _, _)
\* the loop of generateTrades, the ids still to be drawn
GenerateLoop(keys, insights, data, idx, clk) ==
    IF keys = <<>> THEN <<>>
    ELSE LET asset == Head(keys)
             currentData == getCurrentData(data, idx, asset, clk)
             price == currentData.close
             amount == calculateTradeAmount(asset, insights[asset], price)
             rest == GenerateLoop(Tail(keys), insights, data, idx, clk)
         IN IF currentData = Undefined \/ amount = 0 THEN rest
            ELSE <<[id |-> <<>>,
                    asset |-> asset,
                    type |-> IF amount > 0 THEN "buy" ELSE "sell",
                    amount |-> Abs(amount),
                    price |-> price,
                    timestamp |-> currentData.timestamp]>> \o rest

\* the number of trades generateTrades creates: one Math.random() call each
tradeCount(insights, data, idx, clk) ==
    Len(GenerateLoop(Keys(DOMAIN insights), insights, data, idx, clk))

\* rnds[k] is the random draw for the id of the k-th trade
generateTrades(insights, data, idx, clk, rnds) ==
    LET drafts == GenerateLoop(Keys(DOMAIN insights), insights, data, idx, clk)
    IN [k \in 1..Len(drafts) |->
          [drafts[k] EXCEPT !.id = generateTradeId(clk, rnds[k])]]

RECURSIVE ExecuteLoop(_, _, _, _)
\* executeTrades: admit[k] is the answer of riskManager.canOpenPosition for
\* the k-th trade; st = [trades, analyzer, ledger]
ExecuteLoop(newTrades, admit, k, st) ==
    IF k > Len(newTrades) THEN st
    ELSE ExecuteLoop(newTrades, admit, k + 1,
            IF admit[k]
            THEN [st EXCEPT !.trades = Append(@, newTrades[k]),
                            !.analyzer = addTrade(@, newTrades[k])]
            ELSE st)

executeTrades(newTrades, admit, trs, pa, ledger) ==
    ExecuteLoop(newTrades, admit, 1,
                [trades |-> trs, analyzer |-> pa, ledger |-> ledger])

RECURSIVE TotalLoop(_, _, _, _, _)
TotalLoop(keys, alloc, data, idx, clk) ==
    IF keys = <<>> THEN Zero
    ELSE LET asset == Head(keys)
             currentData == getCurrentData(data, idx, asset, clk)
             rest == TotalLoop(Tail(keys), alloc, data, idx, clk)
         IN IF currentData = Undefined THEN rest
            ELSE Add(Mul(alloc[asset], Num(currentData.close)), rest)

calculateTotalValue(portfolio, data, idx, clk) ==
    TotalLoop(Keys(DOMAIN portfolio.assetAllocation), portfolio.assetAllocation,
              data, idx, clk)

calculateAssetAllocation(portfolio, data, idx, clk) ==
    LET totalValue == calculateTotalValue(portfolio, data, idx, clk)
        alloc == portfolio.assetAllocation
    IN [a \in {x \in DOMAIN alloc : getCurrentData(data, idx, x, clk) # Undefined} |->
          Div(Mul(alloc[a], Num(getCurrentData(data, idx, a, clk).close)), totalValue)]

\* updatePortfolio: the snapshot it builds; clkValue and clkAlloc are the
\* clock readings of its two valuation calls
updatedPortfolio(portfolio, data, idx, currentTime, clkValue, clkAlloc) ==
    Snapshot(currentTime,
             calculateTotalValue(portfolio, data, idx, clkValue),
             calculateAssetAllocation(portfolio, data, idx, clkAlloc))

\* the fields of the engine that reset rewrites
Engine == [initialPortfolio |-> initialPortfolio,
           currentPortfolio |-> currentPortfolio,
           trades |-> trades,
           currentTimeIndex |-> currentTimeIndex,
           performanceAnalyzer |-> performanceAnalyzer]

\* a reset that keeps the analyzer of the previous run
resetKeepsAnalyzer(engine, clk) ==
    [engine EXCEPT !.currentPortfolio = engine.initialPortfolio,
                   !.trades = <<>>,
                   !.currentTimeIndex = 0]

\* reset (lines 63-68)
reset(engine, clk) ==
    [engine EXCEPT !.currentPortfolio = engine.initialPortfolio,
                   !.trades = <<>>,
                   !.currentTimeIndex = 0,
                   !.performanceAnalyzer = NewAnalyzer(engine.initialPortfolio, clk)]

----------------------------------------------------------------------------
(* StrategyOptimizer (src/src/optimization/StrategyOptimizer.ts)           *)

\* a value of type T | null is the empty sequence or a one-element sequence
Null == <<>>
Some(x) == <<x>>

ParamNames == {"p", "q"}
ParamOrder == <<"p", "q">>   \* insertion order of this.parameters

\* Object.keys(this.parameters)
ParamKeys(params) == SelectSeq(ParamOrder, LAMBDA n : n \in DOMAIN params)

\* the values Math.random() returns
RandomDraws == {Zero, Norm(1, 2)}

\* Math.floor of a number that is not negative
Floor(a) == a[1] \div a[2]

RECURSIVE StepValuesBelow(_, _, _)
\* the loop with the bound max left out of the range
StepValuesBelow(value, max, step) ==
    IF value < max
    THEN <<Num(value)>> \o StepValuesBelow(value + step, max, step)
    ELSE <<>>

RECURSIVE StepValues(_, _, _)
\* for (let value = min; value <= max; value += step) values.push(value)
StepValues(value, max, step) ==
    IF value <= max THEN <<Num(value)>> \o StepValues(value + step, max, step)
    ELSE <<>>

\* current[name] = value
Assign(current, name, value) ==
    [n \in DOMAIN current \cup {name} |-> IF n = name THEN value ELSE current[n]]

RECURSIVE generateCombinations(_, _, _, _, _)
\* k is the position of the for loop in parameterValues[index]
generateCombinations(parameterValues, index, k, current, names) ==
    IF index = Len(parameterValues) THEN <<current>>
    ELSE IF k > Len(parameterValues[index + 1]) THEN <<>>
    ELSE generateCombinations(parameterValues, index + 1, 1,
              Assign(current, names[index + 1], parameterValues[index + 1][k]),
              names)
         \o generateCombinations(parameterValues, index, k + 1, current, names)

generateParameterCombinations(params) ==
    LET parameterNames == ParamKeys(params)
        parameterValues ==
           [k \in 1..Len(parameterNames) |->
              StepValues(params[parameterNames[k]].min,
                         params[parameterNames[k]].max,
                         params[parameterNames[k]].step)]
    IN generateCombinations(parameterValues, 0, 1, <<>>, parameterNames)

\* a sample that scales the draw by max instead of max - min
sampleParametersUnscaled(params, rnd) ==
    [n \in DOMAIN params |->
       Add(Num(params[n].min), Mul(rnd[n], Num(params[n].max)))]

\* rnd[name] is the random draw for the parameter
sampleParameters(params, rnd) ==
    [n \in DOMAIN params |->
       Add(Num(params[n].min), Mul(rnd[n], Num(params[n].max - params[n].min)))]

calculatePerformanceScore(performance) ==
    Add(Add(Add(Mul(performance.totalReturn, Norm(4, 10)),
                Mul(performance.sharpeRatio, Norm(3, 10))),
            Mul(Sub(One, performance.maxDrawdown), Norm(2, 10))),
        Mul(performance.winRate, Norm(1, 10)))

isBetterResult(result1, result2) ==
    Gt(calculatePerformanceScore(result1.performance),
       calculatePerformanceScore(result2.performance))

\* the result evaluateParameters builds from the runner's report
OptimizationResult(ps, performance) ==
    [parameters |-> ps,
     performance |-> [totalReturn |-> performance.totalReturn,
                      sharpeRatio |-> performance.sharpeRatio,
                      maxDrawdown |-> performance.maxDrawdown,
                      winRate |-> performance.winRate]]

RECURSIVE ReduceBest(_, _, _)
\* results.reduce((best, current) => isBetterResult(current, best) ? current
\* : best): the position of the result it returns
ReduceBest(rs, k, best) ==
    IF k > Len(rs) THEN best
    ELSE ReduceBest(rs, k + 1, IF isBetterResult(rs[k], rs[best]) THEN k ELSE best)

tournamentSize == 3

RECURSIVE TournamentLoop(_, _, _, _)
TournamentLoop(rs, draws, k, best) ==
    IF k > tournamentSize THEN best
    ELSE LET c == rs[Floor(Mul(draws[k], Num(Len(rs)))) + 1]
         IN TournamentLoop(rs, draws, k + 1,
               IF best = Null \/ isBetterResult(c, best[1]) THEN Some(c) ELSE best)

\* draws[k] is the random draw of the k-th round of the tournament
selectParent(rs, draws) == TournamentLoop(rs, draws, 1, Null)[1]

\* draws[name] is the random draw for the parameter
crossover(parent1, parent2, params, draws) ==
    [n \in DOMAIN params |->
       IF Lt(draws[n], Norm(1, 2)) THEN parent1[n] ELSE parent2[n]]

\* hit[name] is the draw compared with the rate, draws[name] the draw for
\* the new value
mutate(ps, params, rate, hit, draws) ==
    [n \in DOMAIN ps \cup DOMAIN params |->
       IF n \in DOMAIN params /\ Lt(hit[n], rate)
       THEN Add(Num(params[n].min),
                Mul(draws[n], Num(params[n].max - params[n].min)))
       ELSE ps[n]]

mutationRate == Norm(1, 10)

\* the children one round of selection, crossover and mutation can give
Children(rs, params, rate) ==
    LET Draws == [DOMAIN params -> RandomDraws]
        Parents == { selectParent(rs, d) : d \in [1..tournamentSize -> RandomDraws] }
    IN { mutate(crossover(p1.parameters, p2.parameters, params, c), params, rate,
                hit, d) :
           p1 \in Parents, p2 \in Parents, c \in Draws, hit \in Draws, d \in Draws }

\* the comparator (a, b) => score(b) - score(a) as Array.prototype.sort reads
\* it: the sign of the difference, a NaN difference counting as 0
compareScores(a, b) ==
    LET v == Sub(calculatePerformanceScore(b.performance),
                 calculatePerformanceScore(a.performance))
    IN IF IsNaN(v) THEN 0 ELSE Sign(v[1])

\* the comparator orders the elements of rs consistently: "equal" and
\* "before" are transitive
consistentScores(rs) ==
    \A x, y, z \in 1..Len(rs) :
       /\ (compareScores(rs[x], rs[y]) = 0 /\ compareScores(rs[y], rs[z]) = 0)
             => compareScores(rs[x], rs[z]) = 0
       /\ (compareScores(rs[x], rs[y]) < 0 /\ compareScores(rs[y], rs[z]) < 0)
             => compareScores(rs[x], rs[z]) < 0

RECURSIVE InsertByScore(_, _)
InsertByScore(x, sorted) ==
    IF sorted = <<>> THEN <<x>>
    ELSE IF compareScores(x, Head(sorted)) <= 0
    THEN <<x>> \o sorted
    ELSE <<Head(sorted)>> \o InsertByScore(x, Tail(sorted))

RECURSIVE SortByScore(_)
\* [...results].sort((a, b) => score(b) - score(a)), a stable sort
SortByScore(rs) ==
    IF rs = <<>> THEN <<>> ELSE InsertByScore(Head(rs), SortByScore(Tail(rs)))

\* with a consistent comparator the sort is the stable sort; otherwise the
\* order of the sorted array is implementation-defined
sortedResults(rs) ==
    IF consistentScores(rs)
    THEN { SortByScore(rs) }
    ELSE { [k \in 1..Len(rs) |-> rs[f[k]]] : f \in Permutations(1..Len(rs)) }

\* the populations createNextGeneration can return
createNextGeneration(pop, rs, elite, rate, params) ==
    { [k \in 1..elite |-> sorted[k].parameters] \o kids :
        sorted \in sortedResults(rs),
        kids \in [1..(Len(pop) - elite) -> Children(rs, params, rate)] }

\* the populations initializePopulation can return
initializePopulation(size, params) ==
    [1..size -> { sampleParameters(params, rnd) :
                    rnd \in [DOMAIN params -> RandomDraws] }]

----------------------------------------------------------------------------
(* The backtest runner                                                     *)

\* the clock starts one tick before the latest bar time
MinClock == MaxT - 1
MaxClock == MaxT
Windows == {1, 2} \X {MaxT}
Randoms == {0, 1}
NoReport == [totalReturn |-> Zero, winRate |-> Zero, sharpeRatio |-> Zero,
             maxDrawdown |-> Zero, trades |-> <<>>]

InitialSnapshots ==
    { Snapshot(0, Num(2), alloc) : alloc \in AllAllocations }

InitEngine ==
    /\ currentPortfolio = initialPortfolio
    /\ trades = <<>>
    /\ currentTimeIndex = 0
    /\ performanceAnalyzer = NewAnalyzer(initialPortfolio, now)
    /\ marketData = <<>>
    /\ pc = "idle"
    /\ window = <<0, 0>>
    /\ timeRange = <<>>
    /\ i = 0
    /\ analysisLog = <<>>
    /\ completed = <<>>
    /\ report = NoReport
    /\ candidates = <<>>
    /\ admitted = <<>>

\* no call of optimizeStrategy under way
OptIdle ==
    /\ opc = "idle"
    /\ iteration = 0
    /\ population = <<>>
    /\ results = <<>>
    /\ generation = 0
    /\ bestResult = Null
    /\ candidate = Null
    /\ evaluations = <<>>
    /\ bestAt = 0
    /\ returned = Null

\* the value loop of generateParameterCombinations is not followed
EnumIdle ==
    /\ enumRange = Null
    /\ loopValue = Null
    /\ valuesLength = 0
    /\ epc = "idle"

\* no rebalancer and no webhook system in use
OuterIdle ==
    /\ EnumIdle
    /\ optPortfolio = Snapshot(0, Zero, <<>>)
    /\ marketInsights = <<>>
    /\ targetAllocation = <<>>
    /\ rebalanceThreshold = Zero
    /\ rebalanceTrades = Null
    /\ webhooks = <<>>
    /\ eventQueue = <<>>
    /\ isProcessing = FALSE
    /\ calls = <<>>
    /\ down = {}
    /\ attempts = <<>>

\* the engine alone; the optimizer, built with its default arguments, is
\* never called
InitCommon ==
    /\ InitEngine
    /\ OuterIdle
    /\ optimizationMethod = "genetic"
    /\ parameters = <<>>
    /\ OptIdle

\* new BacktestingEngine(historicalData, marketAnalyzer, riskManager, initialPortfolio)
Init ==
    /\ historicalData \in AllData
    /\ initialPortfolio \in InitialSnapshots
    /\ now = MinClock
    /\ faulty = {}
    /\ runsLeft = MaxRuns
    /\ InitCommon

\* time passes between two calls
Tick ==
    /\ pc = "idle"
    /\ now < MaxClock
    /\ now' = now + 1
    /\ UNCHANGED <<historicalData, initialPortfolio, currentPortfolio, trades,
                   currentTimeIndex, performanceAnalyzer, marketData, pc, window,
                   timeRange, i, analysisLog, completed, report, faulty, runsLeft,
                   candidates, admitted>>
    /\ UNCHANGED <<optVars, outerVars>>

\* runBacktest(startDate, endDate), lines 33-34: what it writes
runBacktestEntry(w) ==
    LET r == reset(Engine, now)
    IN /\ window' = w
       /\ currentPortfolio' = r.currentPortfolio
       /\ trades' = r.trades
       /\ currentTimeIndex' = r.currentTimeIndex
       /\ performanceAnalyzer' = r.performanceAnalyzer
       /\ timeRange' = getTimeRange(historicalData, w[1], w[2])
       /\ i' = 0
       /\ analysisLog' = <<>>
       /\ pc' = "running"

\* runBacktest called by the user of the engine
StartRun ==
    /\ pc = "idle"
    /\ runsLeft > 0
    /\ \E w \in Windows : runBacktestEntry(w)
    /\ runsLeft' = runsLeft - 1
    /\ UNCHANGED <<historicalData, initialPortfolio, marketData, now, completed,
                   report, faulty, candidates, admitted>>
    /\ UNCHANGED <<optVars, outerVars>>

\* one iteration of the loop of runBacktest, lines 36-58
Step ==
    /\ pc = "running"
    /\ i < Len(timeRange)
    /\ \E failing \in SUBSET (faulty \cap DOMAIN historicalData),
          clkValue \in now..MaxClock :
       \E clkAlloc \in clkValue..MaxClock :
         LET currentTime == timeRange[i + 1]
             md == UpdateMarketData(marketData, historicalData, currentTime)
             res == analyzeMarkets(historicalData, md, failing)
             n == tradeCount(res.insights, historicalData, i, now)
         IN \E rnds \in [1..n -> Randoms], admit \in [1..n -> BOOLEAN] :
              LET newTrades == generateTrades(res.insights, historicalData, i,
                                              now, rnds)
                  ex == executeTrades(newTrades, admit, trades,
                                      performanceAnalyzer, currentPortfolio)
                  up == updatedPortfolio(ex.ledger, historicalData, i, currentTime,
                                         clkValue, clkAlloc)
              IN /\ currentTimeIndex' = i
                 /\ marketData' = md
                 /\ analysisLog' = Append(analysisLog,
                                     [failed |-> failing,
                                      insights |-> DOMAIN res.insights,
                                      newTrades |-> newTrades])
                 /\ IF res.threw
                    THEN /\ pc' = "failed"
                         /\ UNCHANGED <<trades, currentPortfolio,
                                        performanceAnalyzer, i, now>>
                    ELSE /\ pc' = "running"
                         /\ trades' = ex.trades
                         /\ currentPortfolio' = up
                         /\ performanceAnalyzer' = PAupdatePortfolio(ex.analyzer, up)
                         /\ i' = i + 1
                         /\ now' = clkAlloc
    /\ UNCHANGED <<historicalData, initialPortfolio, window, timeRange, completed,
                   report, faulty, runsLeft, candidates, admitted>>
    /\ UNCHANGED <<optVars, outerVars>>

\* the loop is over: return this.performanceAnalyzer.getPerformanceMetrics()
Finish ==
    /\ pc = "running"
    /\ i = Len(timeRange)
    /\ pc' = "idle"
    /\ report' = getPerformanceMetrics(performanceAnalyzer)
    /\ completed' = Append(completed,
                      [window |-> window,
                       timeRange |-> timeRange,
                       trades |-> trades,
                       portfolioHistory |-> performanceAnalyzer.portfolioHistory])
    /\ UNCHANGED <<historicalData, initialPortfolio, currentPortfolio, trades,
                   currentTimeIndex, performanceAnalyzer, marketData, now, window,
                   timeRange, i, analysisLog, faulty, runsLeft, candidates, admitted>>
    /\ UNCHANGED <<optVars, outerVars>>

Next == Tick \/ StartRun \/ Step \/ Finish

Spec == Init /\ [][Next]_vars

\* the same runner once the clock has passed every bar of the data
InitSettled ==
    /\ historicalData \in AllData
    /\ initialPortfolio \in InitialSnapshots
    /\ now = MaxClock
    /\ faulty = {}
    /\ runsLeft = MaxRuns
    /\ InitCommon

NextSettled == StartRun \/ Step \/ Finish

SpecSettled == InitSettled /\ [][NextSettled]_vars

\* the runner built on an initial snapshot the caller dated before the data
\* or at its last bar
DatedSnapshots ==
    { Snapshot(t, Num(2), alloc) : t \in {0, MaxT}, alloc \in AllAllocations }

InitDated ==
    /\ historicalData \in AllData
    /\ initialPortfolio \in DatedSnapshots
    /\ now = MinClock
    /\ faulty = {}
    /\ runsLeft = 1
    /\ InitCommon

SpecDated == InitDated /\ [][Next]_vars

----------------------------------------------------------------------------
(* getTimeRange applied to every window                                    *)

TimelineData == UNION { [S -> FlatSeries] : S \in SUBSET AssetNames }

InitTimeline ==
    /\ historicalData \in TimelineData
    /\ initialPortfolio = Snapshot(0, Num(2), <<>>)
    /\ now = MaxClock
    /\ faulty = {}
    /\ runsLeft = 0
    /\ InitCommon

CallGetTimeRange ==
    /\ pc = "idle"
    /\ \E startDate \in 0..(MaxT + 1), endDate \in 0..(MaxT + 1) :
         /\ window' = <<startDate, endDate>>
         /\ timeRange' = getTimeRange(historicalData, startDate, endDate)
    /\ UNCHANGED <<historicalData, initialPortfolio, currentPortfolio, trades,
                   currentTimeIndex, performanceAnalyzer, marketData, now, pc, i,
                   analysisLog, completed, report, faulty, runsLeft, candidates,
                   admitted>>
    /\ UNCHANGED <<optVars, outerVars>>

NextTimeline == CallGetTimeRange

SpecTimeline == InitTimeline /\ [][NextTimeline]_vars

----------------------------------------------------------------------------
(* A run with an analyzer whose analysis can raise                         *)

FaultData ==
    { [a \in AssetNames |-> IF a = "A" THEN sa ELSE SeriesOf(1..MaxT, "flat")] :
        sa \in FlatSeries }

InitFaults ==
    /\ historicalData \in FaultData
    /\ initialPortfolio = Snapshot(0, Num(2), [a \in AssetNames |-> Num(1)])
    /\ now = MinClock
    /\ faulty \in {{"A"}, AssetNames}
    /\ runsLeft = 1
    /\ InitCommon

SpecFaults == InitFaults /\ [][Next]_vars

----------------------------------------------------------------------------
(* A run started from a snapshot that holds nothing of some asset          *)

\* holdings of 0 or 1 unit, the total value that of the holdings at close 1
ZeroSnapshots ==
    UNION { { Snapshot(0, SumSeq([k \in 1..Len(Keys(S)) |-> alloc[Keys(S)[k]]]),
                       alloc) : alloc \in [S -> {Zero, One}] } :
            S \in SUBSET AssetNames }

InitZero ==
    /\ historicalData \in FaultData
    /\ initialPortfolio \in ZeroSnapshots
    /\ now = MaxClock
    /\ faulty = {}
    /\ runsLeft = 1
    /\ InitCommon

SpecZero == InitZero /\ [][NextSettled]_vars

----------------------------------------------------------------------------
(* executeTrades applied to candidate lists                                *)

CandidateTrades ==
    { [id |-> generateTradeId(MaxClock, 0), asset |-> a, type |-> ty,
       amount |-> q, price |-> 1, timestamp |-> 1] :
        a \in AssetNames, ty \in {"buy", "sell"}, q \in {1, 2} }

CandidateLists == UNION { [1..n -> CandidateTrades] : n \in 1..MaxCands }

InitExec ==
    /\ historicalData = [a \in AssetNames |-> SeriesOf({1}, "flat")]
    /\ initialPortfolio = Snapshot(0, Num(2), [a \in AssetNames |-> Num(1)])
    /\ now = MaxClock
    /\ faulty = {}
    /\ runsLeft = 0
    /\ InitCommon

CallExecuteTrades ==
    /\ pc = "idle"
    /\ candidates = <<>>
    /\ \E newTrades \in CandidateLists :
       \E admit \in [1..Len(newTrades) -> BOOLEAN] :
         LET ex == executeTrades(newTrades, admit, trades, performanceAnalyzer,
                                 currentPortfolio)
         IN /\ trades' = ex.trades
            /\ performanceAnalyzer' = ex.analyzer
            /\ currentPortfolio' = ex.ledger
            /\ candidates' = newTrades
            /\ admitted' = admit
    /\ UNCHANGED <<historicalData, initialPortfolio, currentTimeIndex, marketData,
                   now, pc, window, timeRange, i, analysisLog, completed, report,
                   faulty, runsLeft>>
    /\ UNCHANGED <<optVars, outerVars>>

NextExec == CallExecuteTrades

SpecExec == InitExec /\ [][NextExec]_vars

----------------------------------------------------------------------------
(* A PerformanceAnalyzer driven directly by its caller                     *)

InitPA ==
    /\ historicalData = <<>>
    /\ initialPortfolio \in { Snapshot(0, Num(v), <<>>) : v \in 0..MaxValue }
    /\ now = MaxClock
    /\ faulty = {}
    /\ runsLeft = 0
    /\ InitCommon

\* performanceAnalyzer.updatePortfolio(portfolio) with totalValue >= 0
CallUpdatePortfolio ==
    /\ pc = "idle"
    /\ Len(performanceAnalyzer.portfolioHistory) <= MaxHist
    /\ \E v \in 0..MaxValue :
         performanceAnalyzer' =
            PAupdatePortfolio(performanceAnalyzer,
               Snapshot(Len(performanceAnalyzer.portfolioHistory), Num(v), <<>>))
    /\ UNCHANGED <<historicalData, initialPortfolio, currentPortfolio, trades,
                   currentTimeIndex, marketData, now, pc, window, timeRange, i,
                   analysisLog, completed, report, faulty, runsLeft, candidates,
                   admitted>>
    /\ UNCHANGED <<optVars, outerVars>>

NextPA == CallUpdatePortfolio

SpecPA == InitPA /\ [][NextPA]_vars

----------------------------------------------------------------------------
(* A PerformanceAnalyzer created at any time and fed dated snapshots       *)

InitDaily ==
    /\ historicalData = <<>>
    /\ initialPortfolio \in
          { Snapshot(t, Num(v), <<>>) : t \in 0..MaxT, v \in 0..MaxValue }
    /\ now \in 0..MaxT
    /\ faulty = {}
    /\ runsLeft = 0
    /\ InitCommon

\* performanceAnalyzer.updatePortfolio(portfolio), the snapshots in time order
CallUpdatePortfolioAt ==
    /\ pc = "idle"
    /\ Len(performanceAnalyzer.portfolioHistory) <= MaxHist
    /\ LET h == performanceAnalyzer.portfolioHistory
       IN \E t \in h[Len(h)].timestamp..MaxT, v \in 0..MaxValue :
            performanceAnalyzer' =
               PAupdatePortfolio(performanceAnalyzer, Snapshot(t, Num(v), <<>>))
    /\ UNCHANGED <<historicalData, initialPortfolio, currentPortfolio, trades,
                   currentTimeIndex, marketData, now, pc, window, timeRange, i,
                   analysisLog, completed, report, faulty, runsLeft, candidates,
                   admitted>>
    /\ UNCHANGED <<optVars, outerVars>>

NextDaily == CallUpdatePortfolioAt

SpecDaily == InitDaily /\ [][NextDaily]_vars

----------------------------------------------------------------------------
(* A PerformanceAnalyzer handed trades by its caller                       *)

PricedTrades ==
    { [id |-> generateTradeId(MaxClock, 0), asset |-> a, type |-> ty,
       amount |-> 1, price |-> p, timestamp |-> 1] :
        a \in AssetNames, ty \in {"buy", "sell"}, p \in 1..MaxValue }

InitTrades ==
    /\ historicalData = <<>>
    /\ initialPortfolio = Snapshot(0, Num(2), <<>>)
    /\ now = MaxClock
    /\ faulty = {}
    /\ runsLeft = 0
    /\ InitCommon

\* performanceAnalyzer.addTrade(trade)
CallAddTrade ==
    /\ pc = "idle"
    /\ Len(performanceAnalyzer.trades) < MaxTrades
    /\ \E trade \in PricedTrades :
         performanceAnalyzer' = addTrade(performanceAnalyzer, trade)
    /\ UNCHANGED <<historicalData, initialPortfolio, currentPortfolio, trades,
                   currentTimeIndex, marketData, now, pc, window, timeRange, i,
                   analysisLog, completed, report, faulty, runsLeft, candidates,
                   admitted>>
    /\ UNCHANGED <<optVars, outerVars>>

NextTrades == CallAddTrade

SpecTrades == InitTrades /\ [][NextTrades]_vars

----------------------------------------------------------------------------
(* The optimizer driving the runner                                        *)

Methods == {"genetic", "grid", "bayesian", "iterative", "random"}

ParameterSpecs ==
    { [min |-> a, max |-> b, step |-> c] :
        a \in 0..1, b \in 1..MaxParam, c \in 1..2 }

\* no dimension, the dimension p, or p with a dimension q of range 0..1
ParameterSpaces ==
    {<<>>} \cup { [n \in {"p"} |-> sp] : sp \in ParameterSpecs }
           \cup { [n \in ParamNames |->
                     IF n = "p" THEN sp ELSE [min |-> 0, max |-> 1, step |-> 1]] :
                   sp \in ParameterSpecs }

\* the arguments startDate and endDate of optimizeStrategy
OptWindow == <<1, MaxT>>

\* new StrategyOptimizer(engine, ..., historicalData, initialPortfolio,
\* optimizationMethod, parameters) on an engine that holds nothing or one
\* unit of A
InitOpt ==
    /\ historicalData = [a \in {"A"} |-> SeriesOf(1..MaxT, "flat")]
    /\ initialPortfolio \in
          { Snapshot(0, Num(2), alloc) : alloc \in {<<>>, [a \in {"A"} |-> One]} }
    /\ now = MinClock
    /\ faulty = {}
    /\ runsLeft = 0
    /\ InitEngine
    /\ optimizationMethod \in Methods
    /\ parameters \in ParameterSpaces
    /\ OptIdle
    /\ OuterIdle

\* the switch of optimizeStrategy routing every name to the genetic search
optimizeStrategyDefault(method) ==
    IF method \in {"genetic", "grid", "bayesian"} THEN method ELSE "genetic"

\* the switch of optimizeStrategy: the search it runs, or "error" for the
\* Error it throws
optimizeStrategy(method) ==
    IF method \in {"genetic", "grid", "bayesian"} THEN method ELSE "error"

\* optimizeStrategy(startDate, endDate) up to the first evaluation
CallOptimizeStrategy ==
    /\ opc = "idle"
    /\ opc' = optimizeStrategy(optimizationMethod)
    /\ IF opc' = "genetic"
       THEN population' \in initializePopulation(populationSize, parameters)
       ELSE population' = population
    /\ UNCHANGED <<optimizationMethod, parameters, iteration, results, generation,
                   bestResult, candidate, evaluations, bestAt, returned>>
    /\ UNCHANGED <<engineVars, outerVars>>

\* evaluateParameters(ps, startDate, endDate) up to its call of runBacktest
BeginEvaluation(ps) ==
    /\ pc = "idle"
    /\ candidate = Null
    /\ candidate' = Some(ps)
    /\ runBacktestEntry(OptWindow)
    /\ UNCHANGED <<historicalData, initialPortfolio, marketData, now, completed,
                   report, faulty, runsLeft, candidates, admitted>>

\* runBacktest has returned to evaluateParameters
EvaluationDone == candidate # Null /\ pc = "idle"

\* if (!bestResult || isBetterResult(result, bestResult)) bestResult = result
UpdateBest(result, index) ==
    IF bestResult = Null \/ isBetterResult(result, bestResult[1])
    THEN bestResult' = Some(result) /\ bestAt' = index
    ELSE UNCHANGED <<bestResult, bestAt>>

\* gridSearch: the loop takes the next combination and evaluates it
GridEvaluate ==
    /\ opc = "grid"
    /\ iteration < Len(generateParameterCombinations(parameters))
    /\ BeginEvaluation(generateParameterCombinations(parameters)[iteration + 1])
    /\ UNCHANGED <<optimizationMethod, parameters, opc, iteration, population,
                   results, generation, bestResult, evaluations, bestAt, returned>>
    /\ UNCHANGED outerVars

\* gridSearch: the evaluation has returned
GridCollect ==
    /\ opc = "grid"
    /\ EvaluationDone
    /\ LET result == OptimizationResult(candidate[1], report)
       IN /\ evaluations' = Append(evaluations, result)
          /\ UpdateBest(result, Len(evaluations) + 1)
    /\ iteration' = iteration + 1
    /\ candidate' = Null
    /\ UNCHANGED <<optimizationMethod, parameters, opc, population, results,
                   generation, returned>>
    /\ UNCHANGED <<engineVars, outerVars>>

GridReturn ==
    /\ opc = "grid"
    /\ candidate = Null
    /\ iteration = Len(generateParameterCombinations(parameters))
    /\ returned' = bestResult
    /\ opc' = "done"
    /\ UNCHANGED <<optimizationMethod, parameters, iteration, population, results,
                   generation, bestResult, candidate, evaluations, bestAt>>
    /\ UNCHANGED <<engineVars, outerVars>>

\* bayesianOptimization: the loop samples a candidate and evaluates it
BayesianEvaluate ==
    /\ opc = "bayesian"
    /\ iteration < numIterations
    /\ \E rnd \in [DOMAIN parameters -> RandomDraws] :
         BeginEvaluation(sampleParameters(parameters, rnd))
    /\ UNCHANGED <<optimizationMethod, parameters, opc, iteration, population,
                   results, generation, bestResult, evaluations, bestAt, returned>>
    /\ UNCHANGED outerVars

\* bayesianOptimization: the evaluation has returned
BayesianCollect ==
    /\ opc = "bayesian"
    /\ EvaluationDone
    /\ LET result == OptimizationResult(candidate[1], report)
       IN /\ evaluations' = Append(evaluations, result)
          /\ UpdateBest(result, Len(evaluations) + 1)
    /\ iteration' = iteration + 1
    /\ candidate' = Null
    /\ UNCHANGED <<optimizationMethod, parameters, opc, population, results,
                   generation, returned>>
    /\ UNCHANGED <<engineVars, outerVars>>

BayesianReturn ==
    /\ opc = "bayesian"
    /\ candidate = Null
    /\ iteration = numIterations
    /\ returned' = bestResult
    /\ opc' = "done"
    /\ UNCHANGED <<optimizationMethod, parameters, iteration, population, results,
                   generation, bestResult, candidate, evaluations, bestAt>>
    /\ UNCHANGED <<engineVars, outerVars>>

\* evaluatePopulation: the map evaluates the next individual
GeneticEvaluate ==
    /\ opc = "genetic"
    /\ generation < generations
    /\ Len(results) < Len(population)
    /\ BeginEvaluation(population[Len(results) + 1])
    /\ UNCHANGED <<optimizationMethod, parameters, opc, iteration, population,
                   results, generation, bestResult, evaluations, bestAt, returned>>
    /\ UNCHANGED outerVars

\* evaluatePopulation: the evaluation has returned
GeneticCollect ==
    /\ opc = "genetic"
    /\ EvaluationDone
    /\ LET result == OptimizationResult(candidate[1], report)
       IN /\ evaluations' = Append(evaluations, result)
          /\ results' = Append(results, result)
    /\ candidate' = Null
    /\ UNCHANGED <<optimizationMethod, parameters, opc, iteration, population,
                   generation, bestResult, bestAt, returned>>
    /\ UNCHANGED <<engineVars, outerVars>>

\* the rest of the loop body of geneticOptimization, lines 76-86
GeneticBreed ==
    /\ opc = "genetic"
    /\ candidate = Null
    /\ generation < generations
    /\ Len(results) = Len(population)
    /\ LET g == ReduceBest(results, 2, 1)
       IN UpdateBest(results[g], Len(evaluations) - Len(results) + g)
    /\ population' \in createNextGeneration(population, results, eliteSize,
                                            mutationRate, parameters)
    /\ results' = <<>>
    /\ generation' = generation + 1
    /\ UNCHANGED <<optimizationMethod, parameters, opc, iteration, candidate,
                   evaluations, returned>>
    /\ UNCHANGED <<engineVars, outerVars>>

GeneticReturn ==
    /\ opc = "genetic"
    /\ generation = generations
    /\ returned' = bestResult
    /\ opc' = "done"
    /\ UNCHANGED <<optimizationMethod, parameters, iteration, population, results,
                   generation, bestResult, candidate, evaluations, bestAt>>
    /\ UNCHANGED <<engineVars, outerVars>>

NextOpt ==
    \/ CallOptimizeStrategy
    \/ GridEvaluate \/ GridCollect \/ GridReturn
    \/ BayesianEvaluate \/ BayesianCollect \/ BayesianReturn
    \/ GeneticEvaluate \/ GeneticCollect \/ GeneticBreed \/ GeneticReturn
    \/ Tick \/ Step \/ Finish

SpecOpt == InitOpt /\ [][NextOpt]_vars

\* no dimension, the dimension p, or p and q both of range 0..1
SettledSpaces ==
    {<<>>} \cup { [n \in {"p"} |-> sp] : sp \in ParameterSpecs }
           \cup { [n \in ParamNames |-> [min |-> 0, max |-> 1, step |-> 1]] }

\* the optimizer of an engine holding one unit of A, called once the clock
\* has passed every bar of the data
InitOptSettled ==
    /\ historicalData = [a \in {"A"} |-> SeriesOf(1..MaxT, "flat")]
    /\ initialPortfolio = Snapshot(0, Num(2), [a \in {"A"} |-> One])
    /\ now = MaxClock
    /\ faulty = {}
    /\ runsLeft = 0
    /\ InitEngine
    /\ optimizationMethod \in Methods
    /\ parameters \in SettledSpaces
    /\ OptIdle
    /\ OuterIdle

NextOptSettled ==
    \/ CallOptimizeStrategy
    \/ GridEvaluate \/ GridCollect \/ GridReturn
    \/ BayesianEvaluate \/ BayesianCollect \/ BayesianReturn
    \/ GeneticEvaluate \/ GeneticCollect \/ GeneticBreed \/ GeneticReturn
    \/ Step \/ Finish

SpecOptSettled == InitOptSettled /\ [][NextOptSettled]_vars

\* the optimizer built for the grid search or with a name the switch of
\* optimizeStrategy has no case for
InitGrid ==
    /\ historicalData = [a \in {"A"} |-> SeriesOf(1..MaxT, "flat")]
    /\ initialPortfolio \in
          { Snapshot(0, Num(2), alloc) : alloc \in {<<>>, [a \in {"A"} |-> One]} }
    /\ now = MinClock
    /\ faulty = {}
    /\ runsLeft = 0
    /\ InitEngine
    /\ optimizationMethod \in {"grid", "iterative", "random"}
    /\ parameters \in ParameterSpaces
    /\ OptIdle
    /\ OuterIdle

NextGrid ==
    \/ CallOptimizeStrategy
    \/ GridEvaluate \/ GridCollect \/ GridReturn
    \/ Tick \/ Step \/ Finish

SpecGrid == InitGrid /\ [][NextGrid]_vars

\* ranges with min below, at and above max
GridRanges ==
    { [min |-> a, max |-> b, step |-> c] :
        a \in 0..MaxParam, b \in 0..MaxParam, c \in 1..2 }

\* no dimension, the dimension p, or p with a dimension q that has two
\* values or none
GridSpaces ==
    {<<>>} \cup { [n \in {"p"} |-> sp] : sp \in GridRanges }
           \cup { [n \in ParamNames |-> IF n = "p" THEN sp ELSE sq] :
                   sp \in GridRanges,
                   sq \in { [min |-> 0, max |-> 1, step |-> 1],
                            [min |-> 1, max |-> 0, step |-> 1] } }

\* the optimizer built for the grid search on any of these spaces
InitGridRanges ==
    /\ historicalData = [a \in {"A"} |-> SeriesOf(1..MaxT, "flat")]
    /\ initialPortfolio = Snapshot(0, Num(2), [a \in {"A"} |-> One])
    /\ now = MinClock
    /\ faulty = {}
    /\ runsLeft = 0
    /\ InitEngine
    /\ optimizationMethod = "grid"
    /\ parameters \in GridSpaces
    /\ OptIdle
    /\ OuterIdle

\* what Step and Finish do to the position of runBacktest: the loop takes
\* its next bar or is left by an exception, and after the last bar the call
\* returns
RunnerAdvances ==
    /\ pc = "running"
    /\ \/ i < Len(timeRange) /\ i' = i + 1 /\ pc' = "running"
       \/ i < Len(timeRange) /\ i' = i /\ pc' = "failed"
       \/ i = Len(timeRange) /\ i' = i /\ pc' = "idle"

\* what GridCollect does to the loop counter of gridSearch
GridCollects ==
    /\ opc = "grid"
    /\ EvaluationDone
    /\ iteration' = iteration + 1

\* optimizeStrategy is sequential code: it takes its next step whenever it
\* has one.  For Step, Finish and GridCollect the fairness is stated on the
\* position variables, which they change whenever their guards hold.
SpecGridFair ==
    /\ InitGridRanges
    /\ [][NextGrid]_vars
    /\ WF_vars(CallOptimizeStrategy \/ GridEvaluate \/ GridReturn)
    /\ WF_<<pc, i>>(RunnerAdvances)
    /\ WF_iteration(GridCollects)

----------------------------------------------------------------------------
(* The grid search over a runner whose risk manager can raise              *)

\* the member of faulty that stands for a RiskManager whose updatePortfolio
\* raises
RiskManagerName == "riskManager"

InitGridFaults ==
    /\ historicalData = [a \in {"A"} |-> SeriesOf(1..MaxT, "flat")]
    /\ initialPortfolio \in
          { Snapshot(0, Num(2), alloc) : alloc \in {<<>>, [a \in {"A"} |-> One]} }
    /\ now = MinClock
    /\ faulty = {RiskManagerName}
    /\ runsLeft = 0
    /\ InitEngine
    /\ optimizationMethod = "grid"
    /\ parameters \in ParameterSpaces
    /\ OptIdle
    /\ OuterIdle

\* an iteration of the loop of runBacktest in which the call of
\* riskManager.updatePortfolio (line 111) raises: updateRiskManagement and
\* runBacktest have no try/catch, the exception leaves runBacktest
StepThrows ==
    /\ pc = "running"
    /\ i < Len(timeRange)
    /\ RiskManagerName \in faulty
    /\ LET currentTime == timeRange[i + 1]
           md == UpdateMarketData(marketData, historicalData, currentTime)
           res == analyzeMarkets(historicalData, md, {})
       IN /\ DOMAIN res.insights # {}
          /\ currentTimeIndex' = i
          /\ marketData' = md
          /\ pc' = "failed"
    /\ UNCHANGED <<historicalData, initialPortfolio, currentPortfolio, trades,
                   performanceAnalyzer, now, window, timeRange, i, analysisLog,
                   completed, report, faulty, runsLeft, candidates, admitted>>
    /\ UNCHANGED <<optVars, outerVars>>

\* the exception of runBacktest passes through evaluateParameters and
\* gridSearch, neither of which has a try/catch, and leaves optimizeStrategy
EvaluationThrows ==
    /\ opc = "grid"
    /\ candidate # Null
    /\ pc = "failed"
    /\ opc' = "error"
    /\ candidate' = Null
    /\ pc' = "idle"
    /\ UNCHANGED <<optimizationMethod, parameters, iteration, population, results,
                   generation, bestResult, evaluations, bestAt, returned>>
    /\ UNCHANGED <<historicalData, initialPortfolio, currentPortfolio, trades,
                   currentTimeIndex, performanceAnalyzer, marketData, now, window,
                   timeRange, i, analysisLog, completed, report, faulty, runsLeft,
                   candidates, admitted>>
    /\ UNCHANGED outerVars

NextGridFaults == NextGrid \/ StepThrows \/ EvaluationThrows

SpecGridFaults == InitGridFaults /\ [][NextGridFaults]_vars

----------------------------------------------------------------------------
(* PortfolioOptimizer (src/unnamed/part_001): the rebalancer               *)

\* Math.abs
MathAbs(a) == IF a[1] < 0 THEN Neg(a) ELSE a

\* currentAllocation[asset] || 0
heldValue(pf, asset) ==
    IF asset \in DOMAIN pf.assetAllocation /\ ~IsNaN(pf.assetAllocation[asset])
    THEN pf.assetAllocation[asset]
    ELSE Zero

\* totalValue * targetWeight
targetValueOf(pf, target, asset) == Mul(pf.totalValue, target[asset])

calculateDeviation(pf, target, asset) ==
    Div(Sub(heldValue(pf, asset), targetValueOf(pf, target, asset)),
        targetValueOf(pf, target, asset))

\* this.marketInsights.get(asset)
insightOf(mi, asset) == IF asset \in DOMAIN mi THEN Some(mi[asset]) ELSE Null

\* the placeholder of the code
estimatePrice(asset, insight) == One

calculateTradePriority(deviation, insight) ==
    IF insight = Null THEN deviation
    ELSE IF insight[1].trend = "bullish"
         THEN Mul(deviation, insight[1].confidence)
    ELSE IF insight[1].trend = "bearish"
         THEN Mul(deviation, Sub(One, insight[1].confidence))
    ELSE Mul(deviation, Norm(1, 2))

\* the test with the threshold itself counted as exceeded
reachesThreshold(deviation, threshold) ==
    Gt(MathAbs(deviation), threshold) \/ MathAbs(deviation) = threshold

\* Math.abs(deviation) > this.rebalanceThreshold
exceedsThreshold(deviation, threshold) == Gt(MathAbs(deviation), threshold)

\* the trade pushed for an asset, lines 49-69; its id is left out
rebalancingTrade(pf, mi, target, asset, clk) ==
    LET valueDifference == Sub(targetValueOf(pf, target, asset), heldValue(pf, asset))
        price == estimatePrice(asset, insightOf(mi, asset))
    IN [asset |-> asset,
        type |-> IF Gt(valueDifference, Zero) THEN "buy" ELSE "sell",
        amount |-> MathAbs(Div(valueDifference, price)),
        price |-> price,
        timestamp |-> clk]

\* the trades of optimizePortfolio before they are ordered, lines 29-72
rebalancingTrades(pf, mi, target, threshold, clk) ==
    LET emitted == SelectSeq(Keys(DOMAIN target), LAMBDA a :
                      /\ exceedsThreshold(calculateDeviation(pf, target, a), threshold)
                      /\ Sub(targetValueOf(pf, target, a), heldValue(pf, a)) # Zero)
    IN [k \in 1..Len(emitted) |-> rebalancingTrade(pf, mi, target, emitted[k], clk)]

\* the priority optimizeTradeSequence gives a trade
priorityOf(trade, pf, mi, target) ==
    calculateTradePriority(MathAbs(calculateDeviation(pf, target, trade.asset)),
                           insightOf(mi, trade.asset))

\* the comparator bPriority - aPriority as Array.prototype.sort reads it
comparePriority(a, b, pf, mi, target) ==
    LET v == Sub(priorityOf(b, pf, mi, target), priorityOf(a, pf, mi, target))
    IN IF IsNaN(v) THEN 0 ELSE Sign(v[1])

consistentPriorities(trs, pf, mi, target) ==
    \A x, y, z \in 1..Len(trs) :
       /\ (comparePriority(trs[x], trs[y], pf, mi, target) = 0
           /\ comparePriority(trs[y], trs[z], pf, mi, target) = 0)
             => comparePriority(trs[x], trs[z], pf, mi, target) = 0
       /\ (comparePriority(trs[x], trs[y], pf, mi, target) < 0
           /\ comparePriority(trs[y], trs[z], pf, mi, target) < 0)
             => comparePriority(trs[x], trs[z], pf, mi, target) < 0

RECURSIVE InsertByPriority(_, _, _, _, _)
InsertByPriority(x, sorted, pf, mi, target) ==
    IF sorted = <<>> THEN <<x>>
    ELSE IF comparePriority(x, Head(sorted), pf, mi, target) <= 0
    THEN <<x>> \o sorted
    ELSE <<Head(sorted)>> \o InsertByPriority(x, Tail(sorted), pf, mi, target)

RECURSIVE SortByPriority(_, _, _, _)
SortByPriority(trs, pf, mi, target) ==
    IF trs = <<>> THEN <<>>
    ELSE InsertByPriority(Head(trs), SortByPriority(Tail(trs), pf, mi, target),
                          pf, mi, target)

\* the orders trades.sort(...) can leave: the stable sort when the
\* comparator is consistent, any order otherwise
optimizeTradeSequence(trs, pf, mi, target) ==
    IF consistentPriorities(trs, pf, mi, target)
    THEN { SortByPriority(trs, pf, mi, target) }
    ELSE { [k \in 1..Len(trs) |-> trs[f[k]]] : f \in Permutations(1..Len(trs)) }

\* the lists optimizePortfolio can return
optimizePortfolio(pf, mi, target, threshold, clk) ==
    optimizeTradeSequence(rebalancingTrades(pf, mi, target, threshold, clk),
                          pf, mi, target)

RebalanceValues == {Zero, One, Num(100)}

RebalancePortfolios ==
    { Snapshot(0, tv, alloc) :
        tv \in {Zero, Num(2), Num(100)},
        alloc \in UNION { [S -> RebalanceValues] : S \in SUBSET AssetNames } }

TargetAllocations ==
    UNION { [S -> {Zero, Norm(1, 2), One}] : S \in SUBSET AssetNames }

Thresholds == {Zero, Norm(1, 10), Norm(1, 2)}

Insights ==
    { [trend |-> t, confidence |-> Norm(1, 4)] :
        t \in {"bullish", "bearish", "neutral"} }

\* new PortfolioOptimizer(initialPortfolio, targetAllocation, rebalanceThreshold)
InitRebalance ==
    /\ historicalData = <<>>
    /\ initialPortfolio = Snapshot(0, Num(2), <<>>)
    /\ now = MaxClock
    /\ faulty = {}
    /\ runsLeft = 0
    /\ InitEngine
    /\ optimizationMethod = "genetic"
    /\ parameters = <<>>
    /\ OptIdle
    /\ optPortfolio \in RebalancePortfolios
    /\ marketInsights = <<>>
    /\ targetAllocation \in TargetAllocations
    /\ rebalanceThreshold \in Thresholds
    /\ rebalanceTrades = Null
    /\ webhooks = <<>>
    /\ eventQueue = <<>>
    /\ isProcessing = FALSE
    /\ calls = <<>>
    /\ down = {}
    /\ attempts = <<>>
    /\ EnumIdle

\* updateMarketInsight(asset, insight), before the rebalancing call
CallUpdateMarketInsight ==
    /\ rebalanceTrades = Null
    /\ \E asset \in AssetNames, insight \in Insights :
         marketInsights' = [a \in DOMAIN marketInsights \cup {asset} |->
                              IF a = asset THEN insight ELSE marketInsights[a]]
    /\ UNCHANGED <<optPortfolio, targetAllocation, rebalanceThreshold,
                   rebalanceTrades>>
    /\ UNCHANGED <<engineVars, optVars, hookVars, enumVars>>

\* optimizePortfolio()
CallOptimizePortfolio ==
    /\ rebalanceTrades = Null
    /\ \E trs \in optimizePortfolio(optPortfolio, marketInsights, targetAllocation,
                                    rebalanceThreshold, now) :
         rebalanceTrades' = Some(trs)
    /\ UNCHANGED <<optPortfolio, marketInsights, targetAllocation,
                   rebalanceThreshold>>
    /\ UNCHANGED <<engineVars, optVars, hookVars, enumVars>>

NextRebalance == CallUpdateMarketInsight \/ CallOptimizePortfolio

SpecRebalance == InitRebalance /\ [][NextRebalance]_vars

----------------------------------------------------------------------------
(* StrategyOptimizer: the value loop of generateParameterCombinations in   *)
(* the arithmetic of doubles                                               *)

MaxOff == 4
MaxStep == 3
MaxPushed == 6

\* A double of one of two magnitudes: the integer off (big = FALSE), or
\* 2^53 + off (big = TRUE), for a small off >= 0.
Double(big, off) == [big |-> big, off |-> off]

\* every integer below 2^53 is a double; from 2^53 to 2^54 the doubles are
\* the even integers
Representable(x) == ~x.big \/ x.off % 2 = 0

\* The double nearest to 2^53 + n, ties to even: an odd n lies halfway
\* between 2^53 + n - 1 and 2^53 + n + 1, and the one whose significand
\* (2^53 + m) / 2 is even is the one whose m is a multiple of 4.
RoundBig(n) ==
    IF n % 2 = 0 THEN n
    ELSE IF (n - 1) % 4 = 0 THEN n - 1 ELSE n + 1

\* value += step, for a step that is a small integer
DoubleAdd(x, step) ==
    IF x.big THEN Double(TRUE, RoundBig(x.off + step))
    ELSE Double(FALSE, x.off + step)

\* value <= max
DoubleLe(x, y) == IF x.big = y.big THEN x.off <= y.off ELSE y.big

\* ranges with min and max of one magnitude and a step in 1..MaxStep
EnumRanges ==
    { r \in [min : { Double(b, o) : b \in BOOLEAN, o \in 0..MaxOff },
             max : { Double(b, o) : b \in BOOLEAN, o \in 0..MaxOff },
             step : 1..MaxStep] :
        /\ r.min.big = r.max.big
        /\ Representable(r.min)
        /\ Representable(r.max) }

InitEnumerate ==
    /\ historicalData = <<>>
    /\ initialPortfolio = Snapshot(0, Num(2), <<>>)
    /\ now = MaxClock
    /\ faulty = {}
    /\ runsLeft = 0
    /\ InitEngine
    /\ optimizationMethod = "grid"
    /\ parameters = <<>>
    /\ OptIdle
    /\ optPortfolio = Snapshot(0, Zero, <<>>)
    /\ marketInsights = <<>>
    /\ targetAllocation = <<>>
    /\ rebalanceThreshold = Zero
    /\ rebalanceTrades = Null
    /\ webhooks = <<>>
    /\ eventQueue = <<>>
    /\ isProcessing = FALSE
    /\ calls = <<>>
    /\ down = {}
    /\ attempts = <<>>
    /\ enumRange \in EnumRanges
    /\ loopValue = Null
    /\ valuesLength = 0
    /\ epc = "idle"

\* const values = []; let value = min
EnumBegin ==
    /\ epc = "idle"
    /\ enumRange # Null
    /\ loopValue' = enumRange.min
    /\ valuesLength' = 0
    /\ epc' = "loop"
    /\ UNCHANGED enumRange
    /\ UNCHANGED <<engineVars, optVars, rebVars, hookVars>>

\* value <= max: values.push(value); value += step
EnumPush ==
    /\ epc = "loop"
    /\ DoubleLe(loopValue, enumRange.max)
    /\ valuesLength' = (valuesLength + 1) % (MaxPushed + 1)
    /\ loopValue' = DoubleAdd(loopValue, enumRange.step)
    /\ UNCHANGED <<enumRange, epc>>
    /\ UNCHANGED <<engineVars, optVars, rebVars, hookVars>>

\* value > max: return values
EnumReturn ==
    /\ epc = "loop"
    /\ ~DoubleLe(loopValue, enumRange.max)
    /\ epc' = "returned"
    /\ UNCHANGED <<enumRange, loopValue, valuesLength>>
    /\ UNCHANGED <<engineVars, optVars, rebVars, hookVars>>

NextEnumerate == EnumBegin \/ EnumPush \/ EnumReturn

\* the loop is sequential code: it takes its next step whenever it has one
SpecEnumerate ==
    InitEnumerate /\ [][NextEnumerate]_vars /\ WF_vars(NextEnumerate)

----------------------------------------------------------------------------
(* WebhookSystem: processQueue, retryFailedWebhooks and sendWebhook        *)

MaxCalls == 2
MaxQueue == 2
MaxAttempts == 7
DefaultMaxRetries == 3

Events == {"trade", "insight"}

\* the webhook ids in the order of their registration, which is the order
\* in which the Map hands out its entries
WebhookIds == <<"w1", "w2">>

\* a payload, told from the others by its event
Payloads == { [event |-> e] : e \in Events }

\* WebhookConfig: the events subscribed to and retryConfig?.maxRetries
WebhookConfigs ==
    [events : SUBSET Events, maxRetries : {Null, Some(1), Some(2)}]

\* config.retryConfig?.maxRetries || 3
maxRetriesOf(config) ==
    IF config.maxRetries = Null \/ config.maxRetries[1] = 0
    THEN DefaultMaxRetries
    ELSE config.maxRetries[1]

\* the entries of this.webhooks with config.events.includes(payload.event)
MatchingIds(hooks, payload) ==
    SelectSeq(WebhookIds,
              LAMBDA id : id \in DOMAIN hooks /\ payload.event \in hooks[id].events)

\* the queues of at most n payloads, no payload twice
Queues(n) ==
    UNION { { q \in [1..k -> Payloads] : \A j, m \in 1..k : q[j] = q[m] => j = m } :
            k \in 0..n }

\* a processQueue call that has not been made
NotCalled == [pc |-> "notCalled", payload |-> Null, pending |-> <<>>, attempt |-> 0]

NoAttempts == [k \in Payloads \X {"w1", "w2"} |-> 0]

\* A webhook system with registered webhooks and payloads left on the queue
\* by earlier failed sends; only the endpoint of w1 may be down, and it stays
\* down.
InitHooks ==
    /\ historicalData = <<>>
    /\ initialPortfolio = Snapshot(0, Num(2), <<>>)
    /\ now = MaxClock
    /\ faulty = {}
    /\ runsLeft = 0
    /\ InitEngine
    /\ optimizationMethod = "grid"
    /\ parameters = <<>>
    /\ OptIdle
    /\ optPortfolio = Snapshot(0, Zero, <<>>)
    /\ marketInsights = <<>>
    /\ targetAllocation = <<>>
    /\ rebalanceThreshold = Zero
    /\ rebalanceTrades = Null
    /\ EnumIdle
    /\ webhooks \in
         { [id \in {"w1"} |-> c] : c \in WebhookConfigs } \cup
         { [id \in {"w1", "w2"} |->
               IF id = "w1" THEN c
               ELSE [events |-> {"trade"}, maxRetries |-> Null]] :
             c \in WebhookConfigs }
    /\ eventQueue \in Queues(MaxQueue)
    /\ isProcessing = FALSE
    /\ calls = [c \in 1..MaxCalls |-> NotCalled]
    /\ down \in {{}, {"w1"}}
    /\ attempts = NoAttempts

\* processQueue() is called: it returns at once when a drain is under way or
\* the queue is empty, and sets isProcessing otherwise (lines 93-95)
CallProcessQueue(c) ==
    /\ calls[c].pc = "notCalled"
    /\ IF isProcessing \/ Len(eventQueue) = 0
       THEN /\ calls' = [calls EXCEPT ![c].pc = "returned"]
            /\ UNCHANGED <<isProcessing, attempts>>
       ELSE /\ isProcessing' = TRUE
            /\ calls' = [calls EXCEPT ![c].pc = "loop"]
            /\ attempts' = NoAttempts
    /\ UNCHANGED <<webhooks, eventQueue, down>>
    /\ UNCHANGED <<engineVars, optVars, rebVars, enumVars>>

\* the head of the while loop: the next payload is shifted off the queue and
\* retryFailedWebhooks starts on it, or the queue is empty and the finally
\* block resets isProcessing (lines 97-104, 109-110)
Shift(c) ==
    /\ calls[c].pc = "loop"
    /\ IF Len(eventQueue) > 0
       THEN /\ eventQueue' = Tail(eventQueue)
            /\ calls' = [calls EXCEPT
                           ![c] = [pc |-> "retry",
                                   payload |-> Some(Head(eventQueue)),
                                   pending |-> MatchingIds(webhooks, Head(eventQueue)),
                                   attempt |-> 0]]
            /\ UNCHANGED isProcessing
       ELSE /\ isProcessing' = FALSE
            /\ calls' = [calls EXCEPT ![c].pc = "finished"]
            /\ UNCHANGED eventQueue
    /\ UNCHANGED <<webhooks, down, attempts>>
    /\ UNCHANGED <<engineVars, optVars, rebVars, enumVars>>

\* retryFailedWebhooks has sent to every matching webhook (lines 109-113)
RetryReturns(c) ==
    /\ calls[c].pc = "retry"
    /\ calls[c].pending = <<>>
    /\ calls' = [calls EXCEPT ![c] = [@ EXCEPT !.pc = "loop", !.payload = Null]]
    /\ UNCHANGED <<webhooks, eventQueue, isProcessing, down, attempts>>
    /\ UNCHANGED <<engineVars, optVars, rebVars, enumVars>>

\* one attempt of sendWebhook for the next matching webhook: the fetch
\* succeeds and sendWebhook returns, or it fails and the loop sleeps and
\* goes on, or it fails for the last time and the payload is pushed back on
\* the queue (lines 58-83)
Attempt(c) ==
    /\ calls[c].pc = "retry"
    /\ calls[c].pending # <<>>
    /\ LET id == Head(calls[c].pending)
           payload == calls[c].payload[1]
           maxRetries == maxRetriesOf(webhooks[id])
           attempt == calls[c].attempt
           key == <<payload, id>>
       IN /\ attempts' = [attempts EXCEPT
                            ![key] = IF @ < MaxAttempts THEN @ + 1 ELSE @]
          /\ IF id \notin down
             THEN /\ calls' = [calls EXCEPT
                                 ![c] = [@ EXCEPT !.pending = Tail(@),
                                                  !.attempt = 0]]
                  /\ UNCHANGED eventQueue
             ELSE IF attempt = maxRetries - 1
                  THEN /\ eventQueue' = Append(eventQueue, payload)
                       /\ calls' = [calls EXCEPT
                                      ![c] = [@ EXCEPT !.pending = Tail(@),
                                                       !.attempt = 0]]
                  ELSE /\ calls' = [calls EXCEPT ![c].attempt = attempt + 1]
                       /\ UNCHANGED eventQueue
    /\ UNCHANGED <<webhooks, isProcessing, down>>
    /\ UNCHANGED <<engineVars, optVars, rebVars, enumVars>>

\* the steps of a call once it has been made
Proceed(c) == Shift(c) \/ RetryReturns(c) \/ Attempt(c)

NextHooks == \E c \in 1..MaxCalls : CallProcessQueue(c) \/ Proceed(c)

\* fetch settles and the timer fires, so a call that has been made takes
\* its next step
SpecHooks ==
    /\ InitHooks
    /\ [][NextHooks]_vars
    /\ \A c \in 1..MaxCalls : WF_vars(Proceed(c))

----------------------------------------------------------------------------
(* Properties                                                              *)

RECURSIVE SumOver(_, _)
\* the sum of f over the members of its domain listed in keys
SumOver(keys, f) ==
    IF keys = <<>> THEN Zero ELSE Add(f[Head(keys)], SumOver(Tail(keys), f))

Stepped == pc = "running" /\ i' = i + 1

\* the bars of an asset dated at or before t
BarsUpTo(asset, t) ==
    { k \in 1..Len(historicalData[asset]) : historicalData[asset][k].timestamp <= t }

\* C1: two finished runBacktest calls with the same window have the same
\* trade history and the same snapshot history.
Determinism ==
    \A k1, k2 \in 1..Len(completed) :
        completed[k1].window = completed[k2].window
        => /\ completed[k1].trades = completed[k2].trades
           /\ completed[k1].portfolioHistory = completed[k2].portfolioHistory

\* C2: the timeline is the set of the timestamps of the window that occur in
\* some series, each once, in strictly increasing order, and it is empty for
\* no asset or no bar in the window.
TimestampsInWindow ==
    { t \in 0..(MaxT + 1) :
        /\ window[1] <= t /\ t <= window[2]
        /\ \E a \in DOMAIN historicalData :
             \E k \in 1..Len(historicalData[a]) : historicalData[a][k].timestamp = t }

TimelineIsSortedSet ==
    /\ { timeRange[k] : k \in 1..Len(timeRange) } = TimestampsInWindow
    /\ \A k \in 1..(Len(timeRange) - 1) : timeRange[k] < timeRange[k + 1]
    /\ (DOMAIN historicalData = {} \/ TimestampsInWindow = {}) => timeRange = <<>>

TimelineWitness ==
    /\ Len(timeRange) = 2
    /\ DOMAIN historicalData = AssetNames
    /\ \A a \in AssetNames :
         \E k \in 1..Len(historicalData[a]) :
            historicalData[a][k].timestamp = timeRange[2]
    /\ \A k \in 1..Len(historicalData["A"]) :
            historicalData["A"][k].timestamp # timeRange[1]
    /\ \E k \in 1..Len(historicalData["B"]) :
            historicalData["B"][k].timestamp < window[1]

\* C3: after every step the analyzer holds, for each asset, exactly the bars
\* dated at or before the step's timestamp, and from the second step of a
\* run on the window of an asset extends the one of the step before.
PointInTime ==
    [][Stepped =>
         LET t == timeRange[i + 1]
         IN \A a \in DOMAIN historicalData :
              /\ a \in DOMAIN marketData'
              /\ \A k \in 1..Len(marketData'[a]) : marketData'[a][k].timestamp <= t
              /\ Len(marketData'[a]) = Cardinality(BarsUpTo(a, t))
              /\ marketData'[a] = SubSeq(historicalData[a], 1, Len(marketData'[a]))
              /\ i >= 1 =>
                   /\ Len(marketData[a]) <= Len(marketData'[a])
                   /\ SubSeq(marketData'[a], 1, Len(marketData[a])) = marketData[a]
      ]_vars

PointInTimeWitness ==
    /\ pc = "running"
    /\ i = 2
    /\ "A" \in DOMAIN marketData
    /\ Len(marketData["A"]) = 2
    /\ Len(historicalData["A"]) = 3

\* C4: the totalValue of the snapshot a step appends is the sum, over the
\* assets the ledger holds, of the holding times the close of the asset's
\* most recent bar at or before the step's timestamp.
LastClose(asset, t) ==
    IF asset \notin DOMAIN historicalData \/ BarsUpTo(asset, t) = {} THEN Zero
    ELSE LET k == CHOOSE x \in BarsUpTo(asset, t) :
                    \A y \in BarsUpTo(asset, t) :
                       historicalData[asset][y].timestamp
                          <= historicalData[asset][x].timestamp
         IN Num(historicalData[asset][k].close)

CarryForwardValuation ==
    [][Stepped =>
         LET t == timeRange[i + 1]
             alloc == currentPortfolio.assetAllocation
         IN /\ currentPortfolio'.timestamp = t
            /\ currentPortfolio'.totalValue =
                 SumOver(Keys(DOMAIN alloc),
                         [a \in DOMAIN alloc |-> Mul(alloc[a], LastClose(a, t))])
      ]_vars

\* C5: right after the reset of a call the ledger is the initial snapshot,
\* the trade history is empty and the analyzer is new: it holds the initial
\* snapshot alone and no trade.
FreshStart ==
    (pc = "running" /\ i = 0) =>
        /\ currentPortfolio = initialPortfolio
        /\ trades = <<>>
        /\ currentTimeIndex = 0
        /\ performanceAnalyzer.portfolioHistory = <<initialPortfolio>>
        /\ performanceAnalyzer.trades = <<>>
        /\ performanceAnalyzer.initialPortfolioValue = initialPortfolio.totalValue

FreshStartWitness ==
    /\ pc = "running"
    /\ i = 0
    /\ Len(completed) >= 1
    /\ Len(completed[1].portfolioHistory) >= 3
    /\ completed[1].portfolioHistory[3].assetAllocation
          # initialPortfolio.assetAllocation

\* C6: a candidate is appended to the trade history exactly when the risk
\* gate admitted it, a rejected candidate changes neither the trade history
\* nor the ledger, and an admitted one changes the ledger's holding of its
\* asset.
Holding(portfolio, asset) ==
    IF asset \in DOMAIN portfolio.assetAllocation
    THEN portfolio.assetAllocation[asset] ELSE Zero

RECURSIVE AdmittedOf(_, _, _)
AdmittedOf(cands, admit, k) ==
    IF k > Len(cands) THEN <<>>
    ELSE (IF admit[k] THEN <<cands[k]>> ELSE <<>>) \o AdmittedOf(cands, admit, k + 1)

PartialFailureResilience ==
    /\ pc # "failed"
    /\ pc = "running" => Len(analysisLog) = i
    /\ \A k \in 1..Len(analysisLog) :
         /\ analysisLog[k].insights = DOMAIN historicalData \ analysisLog[k].failed
         /\ \A n \in 1..Len(analysisLog[k].newTrades) :
               analysisLog[k].newTrades[n].asset \notin analysisLog[k].failed
    /\ \A k \in 1..Len(completed) :
         /\ Len(completed[k].portfolioHistory) = 1 + Len(completed[k].timeRange)
         /\ \A n \in 1..Len(completed[k].timeRange) :
               completed[k].portfolioHistory[n + 1].timestamp = completed[k].timeRange[n]

PartialFailureWitness ==
    /\ pc = "idle"
    /\ Len(completed) = 1
    /\ Len(analysisLog) = 3
    /\ "A" \in analysisLog[1].insights
    /\ analysisLog[2].failed = {"A"}
    /\ analysisLog[2].insights = {"B"}
    /\ "A" \in analysisLog[3].insights

\* C8: totalReturn is (final - initial) / initial, initial the value of the
\* snapshot the analyzer was built with and final the value of the latest
\* snapshot; by the division of the code a zero initial value gives NaN for
\* a zero final value and Infinity for a positive one.
ReturnIdentity ==
    LET h == performanceAnalyzer.portfolioHistory
        initial == initialPortfolio.totalValue
        final == h[Len(h)].totalValue
        r == calculateTotalReturn(performanceAnalyzer)
    IN IF initial # Zero
       THEN IsFinite(r) /\ Mul(r, initial) = Sub(final, initial)
       ELSE r = (IF final = Zero THEN NaN ELSE Inf)

ReturnIdentityWitness ==
    LET h == performanceAnalyzer.portfolioHistory
    IN /\ Len(h) = 3
       /\ h[1].totalValue = Num(2)
       /\ h[2].totalValue = Num(0)
       /\ h[3].totalValue = Num(1)
       /\ calculateTotalReturn(performanceAnalyzer) = <<-1, 2>>

\* C9: maxDrawdown is a number in [0, 1], the largest of the drawdowns
\* (runningPeak - value) / runningPeak along the history.
RECURSIVE RunningPeak(_, _)
RunningPeak(h, k) ==
    IF k = 1 THEN h[1].totalValue
    ELSE LET p == RunningPeak(h, k - 1)
         IN IF Lt(p, h[k].totalValue) THEN h[k].totalValue ELSE p

DrawdownAt(h, k) ==
    Div(Sub(RunningPeak(h, k), h[k].totalValue), RunningPeak(h, k))

DrawdownBound ==
    LET h == performanceAnalyzer.portfolioHistory
        d == calculateMaxDrawdown(performanceAnalyzer)
    IN /\ ~IsNaN(d)
       /\ Le(Zero, d)
       /\ Le(d, One)
       /\ \A k \in 1..Len(h) : Le(DrawdownAt(h, k), d)
       /\ \E k \in 1..Len(h) : DrawdownAt(h, k) = d

\* C10: appending a snapshot never makes maxDrawdown smaller than it was.
DrawdownMonotone ==
    [][~Lt(calculateMaxDrawdown(performanceAnalyzer'),
           calculateMaxDrawdown(performanceAnalyzer))]_vars

DrawdownMonotoneWitness ==
    LET h == performanceAnalyzer.portfolioHistory
    IN /\ Len(h) = 3
       /\ h[1].totalValue = Num(2)
       /\ h[2].totalValue = Num(1)
       /\ h[3].totalValue = Num(2)
       /\ calculateMaxDrawdown(performanceAnalyzer) = <<1, 2>>

\* C11: a finished run over three days on which every asset has a bar, the
\* close of an asset never changing and the initial snapshot valued at those
\* closes, reports totalReturn = 0, maxDrawdown = 0 and sharpeRatio = 0.
FlatCloses ==
    \A a \in DOMAIN historicalData :
       \A j, k \in 1..Len(historicalData[a]) :
          historicalData[a][j].close = historicalData[a][k].close

ThreeDayTimeline(tr) ==
    /\ Len(tr) = 3
    /\ \A j, k \in 1..3 : j # k => DayOf(tr[j]) # DayOf(tr[k])
    /\ \A a \in DOMAIN historicalData, k \in 1..3 :
          Find(historicalData[a], tr[k]) # Undefined

ConsistentInitialSnapshot ==
    LET alloc == initialPortfolio.assetAllocation
    IN /\ DOMAIN alloc \subseteq DOMAIN historicalData
       /\ DOMAIN alloc # {}
       /\ initialPortfolio.totalValue =
             SumOver(Keys(DOMAIN alloc),
                     [a \in DOMAIN alloc |->
                        Mul(alloc[a], Num(historicalData[a][1].close))])

FlatMarket ==
    (/\ pc = "idle"
     /\ completed # <<>>
     /\ FlatCloses
     /\ ThreeDayTimeline(completed[Len(completed)].timeRange)
     /\ ConsistentInitialSnapshot)
    => /\ report.totalReturn = Zero
       /\ report.maxDrawdown = Zero
       /\ report.sharpeRatio = Zero

\* C12: the daily values are, for each calendar day on which the history has
\* a snapshot and in day order, the totalValue of the last snapshot of that
\* day, whatever the time at which the analyzer was created.
SnapshotDays(h) == { DayOf(h[k].timestamp) : k \in 1..Len(h) }

LastOfDay(h, day) ==
    h[CHOOSE k \in 1..Len(h) :
        /\ DayOf(h[k].timestamp) = day
        /\ \A j \in (k + 1)..Len(h) : DayOf(h[j].timestamp) # day]

DailyBucketing ==
    LET h == performanceAnalyzer.portfolioHistory
        days == SortedSeq(SnapshotDays(h))
    IN aggregateDailyPortfolioValues(performanceAnalyzer) =
          [k \in 1..Len(days) |-> LastOfDay(h, days[k]).totalValue]

\* C14: an analyzer with the initial snapshot alone and no trade, or with a
\* single daily value, reports 0 for totalReturn, winRate, sharpeRatio,
\* maxDrawdown, value-at-risk, expected shortfall and portfolio volatility.
EmptyHistoryTolerance ==
    LET pa == performanceAnalyzer
        d == getDetailedAnalysis(pa)
    IN ((Len(pa.portfolioHistory) = 1 /\ pa.trades = <<>>)
          \/ Len(aggregateDailyPortfolioValues(pa)) = 1)
       => /\ d.performance.totalReturn = Zero
          /\ d.performance.winRate = Zero
          /\ d.performance.sharpeRatio = Zero
          /\ d.performance.maxDrawdown = Zero
          /\ d.valueAtRisk = Zero
          /\ d.expectedShortfall = Zero
          /\ d.portfolioVolatility = Zero

\* C13: winRate is wins / totalTrades, a win being a trade that, paired
\* with the latest earlier trade on the same asset (trades on other assets
\* may lie between the two), closes a buy by a sell or a sell by a buy at a
\* positive profit; winRate is 0 when there is no trade.
PreviousOnAsset(trs, k) ==
    { j \in 1..(k - 1) :
        /\ trs[j].asset = trs[k].asset
        /\ \A n \in (j + 1)..(k - 1) : trs[n].asset # trs[k].asset }

Wins(trs) ==
    { k \in 1..Len(trs) :
        \E j \in PreviousOnAsset(trs, k) :
           Gt(calculateTradeProfit(trs[j], trs[k]), Zero) }

WinRatePairing ==
    LET trs == performanceAnalyzer.trades
    IN calculateWinRate(performanceAnalyzer) =
          (IF trs = <<>> THEN Zero
           ELSE Div(Num(Cardinality(Wins(trs))), Num(Len(trs))))

\* C15: no snapshot a step records has a NaN or infinite allocation entry,
\* and a snapshot of total value 0 has an empty or all-zero allocation.
ZeroValueGuard ==
    LET h == performanceAnalyzer.portfolioHistory
    IN \A k \in 2..Len(h) :
          /\ \A a \in DOMAIN h[k].assetAllocation :
                IsFinite(h[k].assetAllocation[a])
          /\ h[k].totalValue = Zero =>
                \A a \in DOMAIN h[k].assetAllocation :
                   h[k].assetAllocation[a] = Zero

\* C16: optimizeStrategy called with a method name that its switch has no
\* case for ends in the error, no candidate is ever evaluated and no
\* backtest run started, and the engine and the optimizer are left as they
\* were before the call.
UnknownMethodFails ==
    (optimizationMethod \notin {"genetic", "grid", "bayesian"} /\ opc # "idle")
    => /\ opc = "error"
       /\ evaluations = <<>>
       /\ candidate = Null
       /\ pc = "idle"
       /\ completed = <<>>
       /\ currentPortfolio = initialPortfolio
       /\ trades = <<>>
       /\ performanceAnalyzer.portfolioHistory = <<initialPortfolio>>
       /\ marketData = <<>>
       /\ population = <<>>
       /\ bestResult = Null
       /\ returned = Null

UnknownMethodWitness ==
    /\ opc = "error"
    /\ optimizationMethod = "random"
    /\ DOMAIN parameters = ParamNames

\* C18: a finished grid search has evaluated every member of the Cartesian
\* product of the value lists min, min + step, ... <= max of its dimensions,
\* no candidate outside the product and none twice; the single dimension
\* {min: 0, max: 1, step: 1} gives the evaluations {p: 0} and {p: 1}.
GridValues(sp) ==
    { Num(v) : v \in { x \in sp.min..sp.max : (x - sp.min) % sp.step = 0 } }

GridProduct ==
    { f \in [DOMAIN parameters -> { Num(v) : v \in 0..(MaxParam + 1) }] :
        \A n \in DOMAIN parameters : f[n] \in GridValues(parameters[n]) }

SupportedMethods ==
    (optimizationMethod \in {"grid", "genetic", "iterative"} /\ opc # "idle")
    => /\ opc # "error"
       /\ optimizationMethod = "iterative" => opc \in {"bayesian", "done"}
       /\ opc = "done" =>
             /\ returned # Null
             /\ returned = bestResult
             /\ optimizationMethod = "iterative" =>
                   Len(evaluations) = numIterations

\* C19: the result a search returns has a score at least the score of every
\* candidate the search evaluated, and it is the earliest evaluated of the
\* candidates with that score.
ScoreOf(result) == calculatePerformanceScore(result.performance)

WinnerSelection ==
    (opc = "done" /\ evaluations # <<>>)
    => /\ returned # Null
       /\ \A k \in 1..Len(evaluations) :
             Le(ScoreOf(evaluations[k]), ScoreOf(returned[1]))
       /\ \E k \in 1..Len(evaluations) :
             /\ returned[1] = evaluations[k]
             /\ \A j \in 1..(k - 1) :
                   ScoreOf(evaluations[j]) # ScoreOf(returned[1])

\* C20: the population of every generation has populationSize individuals,
\* and the first eliteSize individuals of a new generation are, with their
\* parameters, eliteSize individuals of the generation before whose scores
\* are at least the score of each of its other individuals.
ElitesOf(rs) ==
    { idx \in [1..eliteSize -> 1..Len(rs)] :
        /\ \A j, k \in 1..eliteSize : j # k => idx[j] # idx[k]
        /\ \A j \in 1..Len(rs) :
              (\A k \in 1..eliteSize : idx[k] # j)
              => \A k \in 1..eliteSize : Le(ScoreOf(rs[j]), ScoreOf(rs[idx[k]])) }

PopulationInvariant ==
    [][/\ opc' = "genetic" => Len(population') = populationSize
       /\ generation' = generation + 1 =>
             \E idx \in ElitesOf(results) :
                \A k \in 1..eliteSize :
                   population'[k] = results[idx[k]].parameters
      ]_vars

\* C21: in the genetic search the best-ever result is replaced only by a
\* result whose score is at least as high, and the result returned is an
\* evaluated candidate whose score is at least the score of every candidate
\* of every generation.
BestEverTracking ==
    [][optimizationMethod = "genetic" =>
         /\ (bestResult # Null /\ bestResult' # bestResult) =>
               /\ bestResult' # Null
               /\ Le(ScoreOf(bestResult[1]), ScoreOf(bestResult'[1]))
         /\ (opc # "done" /\ opc' = "done") =>
               /\ returned' # Null
               /\ \E k \in 1..Len(evaluations) : returned'[1] = evaluations[k]
               /\ \A k \in 1..Len(evaluations) :
                     Le(ScoreOf(evaluations[k]), ScoreOf(returned'[1]))
      ]_vars

\* C22: when the run of a candidate's evaluation raises, the search goes on:
\* the candidate is recorded with the worst score, the remaining candidates
\* are evaluated, and the result returned carries the number of failed
\* evaluations.
WorstScore == NegInf

FailureIsolation ==
    [][/\ (candidate # Null /\ pc = "failed") =>
             /\ opc' = opc
             /\ Len(evaluations') = Len(evaluations) + 1
             /\ evaluations'[Len(evaluations')].parameters = candidate[1]
             /\ ScoreOf(evaluations'[Len(evaluations')]) = WorstScore
       /\ (opc # "done" /\ opc' = "done") =>
             /\ returned' # Null
             /\ Len(evaluations) = Len(generateParameterCombinations(parameters))
             /\ "failedEvaluations" \in DOMAIN returned'[1]
      ]_vars

\* C23: optimizePortfolio returns, for every asset of the target allocation,
\* one trade when |(currentValue - targetValue) / targetValue| is greater
\* than the threshold and none otherwise; the trade is a buy when
\* targetValue > currentValue and a sell otherwise, and amount * price is
\* |targetValue - currentValue|.
CurrentValue(a) ==
    IF a \in DOMAIN optPortfolio.assetAllocation
    THEN optPortfolio.assetAllocation[a] ELSE Zero

TargetValue(a) == Mul(optPortfolio.totalValue, targetAllocation[a])

TradesOn(trs, a) == { k \in 1..Len(trs) : trs[k].asset = a }

RebalancingTrades ==
    rebalanceTrades # Null =>
       \A a \in DOMAIN targetAllocation :
          LET trs == rebalanceTrades[1]
              off == MathAbs(Div(Sub(CurrentValue(a), TargetValue(a)),
                                 TargetValue(a)))
          IN /\ Cardinality(TradesOn(trs, a))
                  = IF Gt(off, rebalanceThreshold) THEN 1 ELSE 0
             /\ \A k \in TradesOn(trs, a) :
                   /\ trs[k].type = IF Gt(TargetValue(a), CurrentValue(a))
                                    THEN "buy" ELSE "sell"
                   /\ Mul(trs[k].amount, trs[k].price)
                        = MathAbs(Sub(TargetValue(a), CurrentValue(a)))

\* currentAllocation {A: 100}, target {A: 0.5, B: 0.5}, totalValue 100 and
\* threshold 0.1: a sell of A and a buy of B, both of value 50
RebalancingWitness ==
    /\ rebalanceTrades # Null
    /\ optPortfolio.totalValue = Num(100)
    /\ optPortfolio.assetAllocation = [a \in {"A"} |-> Num(100)]
    /\ targetAllocation = [a \in AssetNames |-> Norm(1, 2)]
    /\ rebalanceThreshold = Norm(1, 10)
    /\ Len(rebalanceTrades[1]) = 2
    /\ \E k \in 1..2 :
          /\ rebalanceTrades[1][k].asset = "A"
          /\ rebalanceTrades[1][k].type = "sell"
          /\ Mul(rebalanceTrades[1][k].amount, rebalanceTrades[1][k].price) = Num(50)
    /\ \E k \in 1..2 :
          /\ rebalanceTrades[1][k].asset = "B"
          /\ rebalanceTrades[1][k].type = "buy"
          /\ Mul(rebalanceTrades[1][k].amount, rebalanceTrades[1][k].price) = Num(50)

\* C24: the trades optimizePortfolio returns are in descending order of
\* |deviation| times the trend adjustment, which is the confidence of a
\* bullish insight, 1 - confidence of a bearish one, and 0.5 for a neutral
\* insight and for an asset without insight; which trades are returned, and
\* their side, amount and price, are those returned when no insight is known.
TrendAdjustment(a) ==
    IF a \notin DOMAIN marketInsights THEN Norm(1, 2)
    ELSE IF marketInsights[a].trend = "bullish" THEN marketInsights[a].confidence
    ELSE IF marketInsights[a].trend = "bearish"
         THEN Sub(One, marketInsights[a].confidence)
    ELSE Norm(1, 2)

Priority(a) ==
    Mul(MathAbs(Div(Sub(CurrentValue(a), TargetValue(a)), TargetValue(a))),
        TrendAdjustment(a))

Essentials(trs) ==
    { [asset |-> trs[k].asset, type |-> trs[k].type, amount |-> trs[k].amount,
       price |-> trs[k].price] : k \in 1..Len(trs) }

RebalancingOrder ==
    rebalanceTrades # Null =>
       LET trs == rebalanceTrades[1]
       IN /\ \A j, k \in 1..Len(trs) :
                j < k => Le(Priority(trs[k].asset), Priority(trs[j].asset))
          /\ Essentials(trs)
               = Essentials(rebalancingTrades(optPortfolio, <<>>, targetAllocation,
                                              rebalanceThreshold, now))

\* C25: every step of a run appends one snapshot to the analyzer's history
\* and leaves the earlier snapshots as they were, a finished run has
\* 1 + (number of timeline steps) snapshots, and the timestamps of the
\* history, the initial snapshot first, never decrease.
SnapshotHistoryShape ==
    [][LET h == performanceAnalyzer.portfolioHistory
           g == performanceAnalyzer'.portfolioHistory
       IN /\ Stepped => /\ Len(g) = Len(h) + 1
                        /\ SubSeq(g, 1, Len(h)) = h
          /\ (pc = "running" /\ pc' = "idle") => Len(g) = 1 + Len(timeRange)
          /\ \A k \in 1..(Len(g) - 1) : g[k].timestamp <= g[k + 1].timestamp
      ]_vars

\* C26: every parameter set a search holds in its population, evaluates or
\* returns gives each dimension of this.parameters a value between the min
\* and the max of the dimension.
InBounds(ps) ==
    /\ DOMAIN ps = DOMAIN parameters
    /\ \A n \in DOMAIN parameters :
          /\ Le(Num(parameters[n].min), ps[n])
          /\ Le(ps[n], Num(parameters[n].max))

ParameterBounds ==
    /\ \A k \in 1..Len(population) : InBounds(population[k])
    /\ candidate # Null => InBounds(candidate[1])
    /\ \A k \in 1..Len(evaluations) : InBounds(evaluations[k].parameters)
    /\ returned # Null => InBounds(returned[1].parameters)

\* a finished genetic search whose last generation evaluated an individual
\* that the first generation did not hold
ParameterBoundsWitness ==
    /\ opc = "done"
    /\ optimizationMethod = "genetic"
    /\ DOMAIN parameters = ParamNames
    /\ returned # Null
    /\ \E k \in (populationSize + 1)..Len(evaluations) :
          \A j \in 1..populationSize :
             evaluations[k].parameters # evaluations[j].parameters

\* C27: the bar the runner reads for an asset at a step of a run is the
\* asset's bar dated with that step's timestamp of the run's timeline, or
\* none when the asset has no bar of that timestamp.
StepBarAlignment ==
    (pc = "running" /\ i < Len(timeRange))
    => \A a \in DOMAIN historicalData :
          getCurrentData(historicalData, i, a, now)
            = Find(historicalData[a], timeRange[i + 1])

\* C28: the evaluations of one search all report the same totalReturn,
\* sharpeRatio, maxDrawdown and winRate, whatever their parameter sets, and
\* the search returns the candidate it evaluated first.
ParameterIndependence ==
    /\ \A j, k \in 1..Len(evaluations) :
          evaluations[j].performance = evaluations[k].performance
    /\ (opc = "done" /\ evaluations # <<>>) => returned = Some(evaluations[1])

\* the number of values of a range when every sum min + k * step is exact
ValueCount(sp) ==
    IF sp.min > sp.max THEN 0 ELSE ((sp.max - sp.min) \div sp.step) + 1

RECURSIVE CountProduct(_)
CountProduct(names) ==
    IF names = <<>> THEN 1
    ELSE ValueCount(parameters[Head(names)]) * CountProduct(Tail(names))

GridFinished ==
    opc = "done" =>
       /\ Len(evaluations) = CountProduct(ParamKeys(parameters))
       /\ (\A n \in DOMAIN parameters : parameters[n].min <= parameters[n].max)
             => /\ Len(evaluations) >= 1
                /\ returned # Null
                /\ \E k \in 1..Len(evaluations) : returned[1] = evaluations[k]

\* With exact sums a grid search over ranges with positive steps comes to
\* its end; it has then evaluated as many candidates as the product of the
\* numbers of values of the dimensions, and when no dimension has min > max
\* it has evaluated at least one and returns a candidate.
GridTermination == []GridFinished /\ ((opc = "grid") ~> (opc = "done"))

\* a finished search of six candidates on two dimensions
GridTerminationWitness ==
    /\ opc = "done"
    /\ DOMAIN parameters = ParamNames
    /\ parameters["p"] = [min |-> 0, max |-> 2, step |-> 1]
    /\ Len(evaluations) = 6
    /\ returned # Null

\* C29: the enumeration of the values of a range with step > 0 terminates:
\* once the loop of generateParameterCombinations is entered it is left.
EnumerationTerminates == (epc = "loop") ~> (epc = "returned")

\* calls inside the drain loop
Draining == { c \in 1..MaxCalls : calls[c].pc \in {"loop", "retry"} }

\* at most one drain loop is active, and it holds isProcessing
OneDrainLoop ==
    /\ Cardinality(Draining) <= 1
    /\ Draining # {} => isProcessing

\* a call made while a drain is under way returns and leaves the queue alone
BusyCallReturns ==
    [][\A c \in 1..MaxCalls :
         (isProcessing /\ calls[c].pc = "notCalled" /\ calls'[c].pc # "notCalled")
            => calls'[c].pc = "returned" /\ eventQueue' = eventQueue]_vars

\* within a drain a payload is sent to a webhook at most maxRetries times
AttemptsPerDrain ==
    \A p \in Payloads : \A id \in DOMAIN webhooks :
        attempts[<<p, id>>] <= maxRetriesOf(webhooks[id])

\* a call that entered the drain loop finishes, with isProcessing reset
DrainFinishes ==
    \A c \in 1..MaxCalls :
        (calls[c].pc \in {"loop", "retry"})
           ~> (calls[c].pc = "finished" /\ ~isProcessing)

\* C30: at most one drain loop is active at a time and a call made during a
\* drain returns without touching the queue; within a drain each payload is
\* attempted at most maxRetries times per matching webhook; and every call
\* that drains finishes with isProcessing reset to false, also when an
\* endpoint keeps failing.
WebhookDraining ==
    /\ []OneDrainLoop
    /\ BusyCallReturns
    /\ []AttemptsPerDrain
    /\ DrainFinishes

====
